---- MODULE Spec2Model ----
(***************************************************************************)
(* State-machine model of the visual-novel runtime in src/engine.py:        *)
(* VisualNovelEngine (scene state machine, dialog sequencing, skip mode,   *)
(* pause / main menu dispatch, save and load), DialogBox (typewriter),     *)
(* ChoiceMenu, TextSprite, AnimationPlayer and SaveManager.                *)
(*                                                                         *)
(* Units.  pygame.time.get_ticks() is an integer number of milliseconds;   *)
(* the model clock `now` is that number.  Durations the source keeps as    *)
(* float seconds (DialogLine.delay, TextSprite fade/hold durations,        *)
(* keyframe times) are kept here as integer milliseconds, so the source's  *)
(* test (now - start) / 1000.0 < seconds is (now - start) < milliseconds.  *)
(* A typing duration is kept as its number of 60 Hz frames                 *)
(* (typing_duration * 60 in DialogBox.set_dialog).                         *)
(* Texts are sequences of characters.                                      *)
(***************************************************************************)
EXTENDS Integers, Sequences, FiniteSets, TLC

VARIABLES eng, files, assets, now, pc, inp

vars == <<eng, files, assets, now, pc, inp>>

\* Python's None: for a string-valued, a number-valued (the numbers of the
\* program are never negative) and an object-valued optional.
None == "None"
NoneNum == -1
NoneRec == [none |-> TRUE]

\* ------------------------------------------------------------------ bounds
\* Number of iterations of the game loop that are explored.
MaxFrames == 6

\* -------------------------------------------------------- program constants
\* VisualNovelEngine.fps = 60: clock.tick(60) makes one loop iteration last
\* 1000/60 ms, rounded to a whole number of get_ticks() milliseconds.
FrameMs == 17
\* VisualNovelEngine.skip_delay: least time between two synthesized advances.
skip_delay == 50
\* PauseMenu: slots shown on one page of the save / load grid (range(4)).
SlotsPerPage == 4

\* ------------------------------------------------------------------ helpers
Min(a, b) == IF a <= b THEN a ELSE b

Range(s) == {s[i] : i \in 1..Len(s)}

RECURSIVE SeqFold(_, _, _, _)
\* Left fold of Op over the elements s[i..Len(s)], as a Python for loop.
SeqFold(Op(_, _), acc, s, i) ==
    IF i > Len(s) THEN acc ELSE SeqFold(Op, Op(acc, s[i]), s, i + 1)

\* dict.get(key, default) on a TLA+ function used as a dict.
Get(d, k, default) == IF k \in DOMAIN d THEN d[k] ELSE default

\* d[k] = v on a dict.
Put(d, k, v) == [x \in DOMAIN d \cup {k} |-> IF x = k THEN v ELSE d[x]]

\* del d[k] on a dict.
Del(d, k) == [x \in DOMAIN d \ {k} |-> d[x]]

\* A local variable assigned once: Let(v, LAMBDA x : e) is e with x bound to
\* the value v.
Let(v, F(_)) == F(v)

EmptyDict == [x \in {} |-> None]

\* ------------------------------------------------------------ story document
\* Delay used by the delayed lines of the story, 2 frames.
DelayMs == 2 * FrameMs
\* Fade duration used by the text overlays of the story, 2 frames.
FadeMs == 2 * FrameMs

\* DialogLine (src/story.py).  typing_speed: None = default rate, 0 = instant,
\* otherwise the duration in frames.  delay: milliseconds, None = no delay.
\* position: None or a dict with x and y.
DialogLine(character_id, text, animations, position, sound_file, typing_speed, delay, is_delay_only) ==
    [character_id |-> character_id, text |-> text, emotion |-> "default",
     animations |-> animations, position |-> position,
     sound_file |-> sound_file, typing_speed |-> typing_speed,
     delay |-> delay, is_delay_only |-> is_delay_only]

\* Choice (src/story.py).
Choice(text, next_scene_id) == [text |-> text, next_scene_id |-> next_scene_id]

\* Scene (src/story.py).  The scenes of the story that declare music also
\* declare a background image.
Scene(id, dialogs, choices, next_scene_id, texts, anims, chars, images, music) ==
    [id |-> id, name |-> id, background |-> IF music # "" THEN "bg.png" ELSE "",
     dialogs |-> dialogs, choices |-> choices,
     next_scene_id |-> next_scene_id, texts_on_screen |-> texts,
     background_animations |-> anims, characters_on_screen |-> chars,
     images_on_screen |-> images, music |-> music]

\* One keyframe of an animation dict, declaring its time and x.
Keyframe(time, x) == [time |-> time, x |-> x]

\* An entry of DialogLine.animations / Scene.background_animations.
AnimDict(character_id, image_id, keyframes, loop) ==
    [character_id |-> character_id, image_id |-> image_id,
     keyframes |-> keyframes, loop |-> loop]

\* An entry of Scene.texts_on_screen.
TextDict(id, animation, block_skip, order) ==
    [id |-> id, animation |-> animation, block_skip |-> block_skip,
     order |-> order, fade_in_duration |-> FadeMs,
     fade_out_duration |-> FadeMs, hold_duration |-> FadeMs]

\* Character (src/story.py): images maps emotion -> path.
Characters ==
    [c \in {"hero", "ghost"} |->
        IF c = "hero"
        THEN [id |-> "hero", name |-> "Hero", images |-> [e \in {"default"} |-> "hero.png"]]
        ELSE [id |-> "ghost", name |-> "Ghost", images |-> EmptyDict]]

HeroTrack == AnimDict("hero", None, <<Keyframe(0, 2), Keyframe(34, 8)>>, FALSE)
LogoTrack == AnimDict(None, "logo", <<Keyframe(0, 0), Keyframe(34, 4)>>, TRUE)

LinePlain == DialogLine(None, <<"H", "i">>, <<>>, NoneRec, None, NoneNum, NoneNum, FALSE)
LineInstant == DialogLine("ghost", <<"o", "k">>, <<>>, NoneRec, None, 0, NoneNum, FALSE)
LineSlow == DialogLine(None, <<"a", "b">>, <<>>, NoneRec, None, 4, 0, FALSE)
LineDelay == DialogLine(None, <<"w", "x">>, <<>>, NoneRec, None, NoneNum, DelayMs, FALSE)
LineWait == DialogLine(None, <<>>, <<>>, NoneRec, None, NoneNum, DelayMs, TRUE)
LineFx == DialogLine("hero", <<"y", "o">>, <<HeroTrack>>, [x |-> 3, y |-> 7], "bell.wav", 0, NoneNum, FALSE)
LineFx2 == DialogLine("hero", <<"h", "m">>, <<HeroTrack>>, NoneRec, "horn.wav", 0, NoneNum, FALSE)

SceneIds == {"A", "B", "L", "E", "R", "Z", "M", "Q"}

\* A scene id that names no scene of the story.
Missing == "missing"

Scenes ==
    [s \in SceneIds |->
       CASE s = "A" -> Scene("A", <<LineFx, LineDelay, LineFx2>>, <<>>, "B",
                             <<>>, <<LogoTrack>>, <<>>,
                             <<[id |-> "logo", path |-> "logo.png", layer |-> 0]>>, "theme.ogg")
         [] s = "B" -> Scene("B", <<LineWait, LinePlain>>,
                             <<Choice("Go left", "L"), Choice("Go right", "R")>>,
                             "A", <<>>, <<>>, <<>>, <<>>, "")
         [] s = "L" -> Scene("L", <<LineDelay, LineWait>>, <<>>, "E",
                             <<TextDict("sub", "fade_in_out", FALSE, 1),
                               TextDict("title", "fade_in", TRUE, 0)>>,
                             <<>>, <<[id |-> "hero", emotion |-> "default"]>>, <<>>, "")
         [] s = "E" -> Scene("E", <<>>, <<>>, "M", <<>>, <<>>, <<>>, <<>>, "")
         [] s = "R" -> Scene("R", <<LineSlow>>, <<>>, None, <<>>, <<>>, <<>>, <<>>, "")
         [] s = "Z" -> Scene("Z", <<>>, <<>>, None, <<>>, <<>>, <<>>, <<>>, "")
         [] s = "M" -> Scene("M", <<LineInstant>>, <<>>, Missing, <<>>, <<>>, <<>>, <<>>, "")
         [] OTHER   -> Scene("Q", <<>>,
                             <<Choice("Nowhere", Missing), Choice("Stop", "Z"),
                               Choice("Left", "L")>>,
                             None, <<>>, <<>>, <<>>, <<>>, "")]

\* Every asset path the story names.
AllAssets == {"hero.png", "logo.png", "bg.png", "bell.wav", "horn.wav", "theme.ogg"}

\* Story (src/story.py): the documents the engine is started on.
Story(start_scene_id, main_menu_enabled, pause_menu_enabled) ==
    [start_scene_id |-> start_scene_id,
     main_menu |-> [enabled |-> main_menu_enabled,
                    sliders |-> <<[id |-> "slider_music",
                                   setting |-> "music_volume", value |-> 8]>>],
     pause_menu |-> [enabled |-> pause_menu_enabled],
     characters |-> Characters, scenes |-> Scenes]

\* The last two are documents Story.from_dict accepts whose start_scene_id
\* names no scene: one left over from a scene that is gone, and the default
\* "" of a document without the key.
Stories ==
    {Story(s, FALSE, TRUE) : s \in {"A", "B", "E", "Z", "Q"}}
    \cup {Story("A", TRUE, TRUE), Story("A", TRUE, FALSE), Story("B", FALSE, FALSE),
          Story("Q", TRUE, FALSE)}
    \cup {Story(Missing, FALSE, TRUE), Story("", TRUE, FALSE)}

\* Story.get_scene: scenes.get(scene_id).  story.scenes is not changed at
\* runtime, so the reference to a Scene object is held as its key.
get_scene(story, scene_id) ==
    IF scene_id \in DOMAIN story.scenes THEN scene_id ELSE None

\* Story.get_character: characters.get(char_id).
get_character(story, char_id) == Get(story.characters, char_id, NoneRec)

\* ------------------------------------------------------------------ DialogBox
\* DialogBox.__init__.  char_index and text_speed are the source's floats,
\* kept as exact fractions num/den over a common denominator.
DialogBoxInit ==
    [current_name |-> "", full_text |-> <<>>, displayed_text |-> <<>>,
     char_index |-> [num |-> 0, den |-> 1],
     text_speed |-> [num |-> 2, den |-> 1], is_complete |-> TRUE]

\* set_dialog that types a line of duration 0 at the default rate.
set_dialog_zero_is_default(db, name, text, typing_duration) ==
    LET text_len == IF Len(text) > 0 THEN Len(text) ELSE 1
        speed == IF typing_duration # NoneNum /\ typing_duration # 0
                 THEN [num |-> text_len, den |-> typing_duration]
                 ELSE [num |-> 1, den |-> 1]
    IN [db EXCEPT !.current_name = name, !.full_text = text,
                  !.displayed_text = <<>>,
                  !.char_index = [num |-> 0, den |-> speed.den],
                  !.text_speed = speed, !.is_complete = FALSE]

\* DialogBox.set_dialog(name, text, ..., typing_duration).
set_dialog(db, name, text, typing_duration) ==
    LET text_len == IF Len(text) > 0 THEN Len(text) ELSE 1
        speed == IF typing_duration # NoneNum
                 THEN IF typing_duration = 0
                      THEN [num |-> text_len + 1, den |-> 1]
                      ELSE [num |-> text_len, den |-> typing_duration]
                 ELSE [num |-> 1, den |-> 1]
    IN [db EXCEPT !.current_name = name, !.full_text = text,
                  !.displayed_text = <<>>,
                  !.char_index = [num |-> 0, den |-> speed.den],
                  !.text_speed = speed, !.is_complete = FALSE]

\* DialogBox.update: one frame of the typing effect.
DialogBox_update(db) ==
    IF db.is_complete THEN db
    ELSE LET den == db.char_index.den
             sum == db.char_index.num + db.text_speed.num
             full == Len(db.full_text) * den
             done == sum >= full
             idx == IF done THEN full ELSE sum
         IN [db EXCEPT !.char_index = [num |-> idx, den |-> den],
                       !.is_complete = done,
                       !.displayed_text = SubSeq(db.full_text, 1, idx \div den)]

\* skip_animation that shows the text but forgets to mark it complete.
skip_animation_not_complete(db) ==
    [db EXCEPT !.displayed_text = db.full_text,
               !.char_index = [num |-> Len(db.full_text) * db.char_index.den,
                               den |-> db.char_index.den]]

\* skip_animation that leaves char_index where the typing had got to.
skip_animation_keeps_index(db) ==
    [db EXCEPT !.displayed_text = db.full_text, !.is_complete = TRUE]

\* DialogBox.skip_animation.
skip_animation(db) ==
    [db EXCEPT !.displayed_text = db.full_text,
               !.char_index = [num |-> Len(db.full_text) * db.char_index.den,
                               den |-> db.char_index.den],
               !.is_complete = TRUE]

\* ----------------------------------------------------------------- ChoiceMenu
\* ChoiceMenu.__init__.
ChoiceMenuInit == [choices |-> <<>>, selected_index |-> 0, is_active |-> FALSE]

\* set_choices that drops the last choice.
set_choices_drops_last(cm, choices) ==
    [choices |-> SubSeq(choices, 1, Len(choices) - 1), selected_index |-> 0,
     is_active |-> Len(choices) > 0]

\* ChoiceMenu.set_choices.
set_choices(cm, choices) ==
    [choices |-> choices, selected_index |-> 0, is_active |-> Len(choices) > 0]

\* ChoiceMenu._get_choice_at_pos: the index of the choice whose rectangle
\* holds the position, or None.  A position is abstracted to the widget it
\* lies on; the rectangles of distinct indices are disjoint
\* (_get_choice_rect: y = start_y + index * 60, height 50).
\* Indices are the source's, from 0.
get_choice_at_pos_first(cm, pos) ==
    IF pos.on = "choice" /\ pos.i < Len(cm.choices) THEN 0 ELSE NoneNum

get_choice_at_pos(cm, pos) ==
    IF pos.on = "choice" /\ pos.i < Len(cm.choices) THEN pos.i ELSE NoneNum

\* ChoiceMenu.handle_input: <<menu, result>>, result a scene id or None.
ChoiceMenu_handle_input(cm, ev) ==
    IF ~cm.is_active THEN <<cm, None>>
    ELSE CASE ev.type = "KEYDOWN" ->
                 (CASE ev.key = "UP" ->
                          <<[cm EXCEPT !.selected_index =
                                (cm.selected_index - 1) % Len(cm.choices)], None>>
                    [] ev.key = "DOWN" ->
                          <<[cm EXCEPT !.selected_index =
                                (cm.selected_index + 1) % Len(cm.choices)], None>>
                    [] ev.key = "RETURN" ->
                          <<cm, cm.choices[cm.selected_index + 1].next_scene_id>>
                    [] OTHER -> <<cm, None>>)
           [] ev.type = "MOUSEMOTION" ->
                 LET idx == get_choice_at_pos(cm, ev.pos)
                 IN <<IF idx # NoneNum THEN [cm EXCEPT !.selected_index = idx] ELSE cm,
                      None>>
           [] ev.type = "MOUSEBUTTONDOWN" ->
                 LET idx == get_choice_at_pos(cm, ev.pos)
                 IN <<cm, IF idx # NoneNum THEN cm.choices[idx + 1].next_scene_id
                                        ELSE None>>
           [] OTHER -> <<cm, None>>

\* ----------------------------------------------------------------- TextSprite
\* TextSprite.__init__ followed by TextSprite.setup(**text_data), as
\* VisualNovelEngine._load_texts calls them.
TextSprite_setup(d) ==
    LET animation_duration == Get(d, "animation_duration", 1000)
        none == d.animation = "none"
    IN [text_id |-> d.id, animation |-> d.animation,
        block_skip |-> d.block_skip, order |-> d.order,
        fade_in_duration |-> IF d.fade_in_duration # 1000
                             THEN d.fade_in_duration ELSE animation_duration,
        fade_out_duration |-> d.fade_out_duration,
        hold_duration |-> d.hold_duration,
        started |-> none, animation_complete |-> none, visible |-> none,
        alpha |-> IF none THEN 255 ELSE 0,
        animation_phase |-> IF none THEN "complete" ELSE "waiting",
        animation_start_time |-> NoneNum]

\* TextSprite.start at clock t.
TextSprite_start(ts, t) ==
    IF ts.started \/ ts.animation = "none" THEN ts
    ELSE LET s1 == [ts EXCEPT !.started = TRUE, !.visible = TRUE,
                              !.animation_start_time = t]
         IN CASE ts.animation \in {"fade_in", "fade_in_out"} ->
                    [s1 EXCEPT !.alpha = 0, !.animation_phase = "fade_in"]
              [] ts.animation = "fade_out" ->
                    [s1 EXCEPT !.alpha = 255, !.animation_phase = "fade_out"]
              [] OTHER -> s1

\* int(255 * min(elapsed / duration, 1.0)).
FadeAlpha(elapsed, duration) ==
    IF elapsed >= duration THEN 255 ELSE (255 * elapsed) \div duration

\* int(255 * (1 - min(elapsed / duration, 1.0))), int() truncating.
FadeOutAlpha(elapsed, duration) ==
    IF elapsed >= duration THEN 0
    ELSE (255 * (duration - elapsed)) \div duration

\* TextSprite.update at clock t.
TextSprite_update(ts, t) ==
    IF ts.animation_complete \/ ~ts.started \/ ts.animation_start_time = NoneNum
    THEN ts
    ELSE LET elapsed == t - ts.animation_start_time
             fadeIn == [ts EXCEPT !.alpha = FadeAlpha(elapsed, ts.fade_in_duration)]
             fadeOut == [ts EXCEPT !.alpha = FadeOutAlpha(elapsed, ts.fade_out_duration)]
             finish(s) == [s EXCEPT !.animation_complete = TRUE,
                                    !.animation_phase = "complete"]
         IN CASE ts.animation = "fade_in" ->
                    IF elapsed >= ts.fade_in_duration THEN finish(fadeIn) ELSE fadeIn
              [] ts.animation = "fade_out" ->
                    IF elapsed >= ts.fade_out_duration
                    THEN [finish(fadeOut) EXCEPT !.visible = FALSE] ELSE fadeOut
              [] ts.animation = "fade_in_out" ->
                    (CASE ts.animation_phase = "fade_in" ->
                             IF elapsed >= ts.fade_in_duration
                             THEN [fadeIn EXCEPT !.animation_phase = "hold",
                                                 !.animation_start_time = t]
                             ELSE fadeIn
                       [] ts.animation_phase = "hold" ->
                             IF elapsed >= ts.hold_duration
                             THEN [ts EXCEPT !.animation_phase = "fade_out",
                                             !.animation_start_time = t]
                             ELSE ts
                       [] ts.animation_phase = "fade_out" ->
                             IF elapsed >= ts.fade_out_duration
                             THEN [finish(fadeOut) EXCEPT !.visible = FALSE]
                             ELSE fadeOut
                       [] OTHER -> ts)
              [] OTHER -> ts

\* TextSprite.is_blocking.
is_blocking(ts) == ts.block_skip /\ ~ts.animation_complete

\* ------------------------------------------------------------ AnimationPlayer
\* Ids of characters and images that occur in a story; an id is a string.
IdUniverse == {"hero", "ghost", "logo", "img_logo"}

\* f"img_{image_id}".
ImgAnimId(image_id) == "img_" \o image_id

\* anim_id.startswith('img_'), for the ids of the universe.
StartsWithImg(anim_id) == \E i \in IdUniverse : anim_id = ImgAnimId(i)

\* anim_id[4:] of an id that starts with "img_".
StripImg(anim_id) == CHOOSE i \in IdUniverse : anim_id = ImgAnimId(i)

\* AnimationPlayer.__init__.
AnimationPlayerInit == [animations |-> EmptyDict, active_animations |-> EmptyDict]

\* AnimationPlayer.add_animation.
add_animation(ap, char_id, keyframes, loop) ==
    [ap EXCEPT !.animations =
        Put(ap.animations, char_id, [keyframes |-> keyframes, loop |-> loop])]

\* AnimationPlayer.start_animation at clock t.
start_animation(ap, char_id, t) ==
    IF char_id \in DOMAIN ap.animations
    THEN [ap EXCEPT !.active_animations =
            Put(ap.active_animations, char_id,
                [start_time |-> t,
                 keyframes |-> ap.animations[char_id].keyframes,
                 loop |-> ap.animations[char_id].loop])]
    ELSE ap

\* AnimationPlayer.start_all at clock t: start_animation for every registered
\* id (the starts are independent of each other).
start_all(ap, t) ==
    [ap EXCEPT !.active_animations =
        [id \in DOMAIN ap.active_animations \cup DOMAIN ap.animations |->
            IF id \in DOMAIN ap.animations
            THEN [start_time |-> t,
                  keyframes |-> ap.animations[id].keyframes,
                  loop |-> ap.animations[id].loop]
            ELSE ap.active_animations[id]]]

\* AnimationPlayer.clear.
AnimationPlayer_clear(ap) == AnimationPlayerInit

RECURSIVE Bracket(_, _, _, _, _)
\* The keyframe search loop of AnimationPlayer.update, from index i on:
\* <<prev_kf, next_kf>>.
Bracket(keyframes, elapsed, i, prev_kf, next_kf) ==
    IF i > Len(keyframes) THEN <<prev_kf, next_kf>>
    ELSE IF keyframes[i].time <= elapsed
         THEN Bracket(keyframes, elapsed, i + 1, keyframes[i],
                      IF i + 1 <= Len(keyframes) THEN keyframes[i + 1] ELSE next_kf)
         ELSE <<prev_kf, keyframes[i]>>

\* The time on the track without the wrap of a looping track.
TrackTime_no_wrap(anim_data, t) == t - anim_data.start_time

\* The time on the track at clock t: elapsed, wrapped for a looping track.
TrackTime(anim_data, t) ==
    LET elapsed == t - anim_data.start_time
        total_duration == anim_data.keyframes[Len(anim_data.keyframes)].time
    IN IF anim_data.loop /\ total_duration > 0
       THEN elapsed % total_duration ELSE elapsed

\* A pose that is held at the earlier keyframe until the later one is reached.
TrackPose_held(anim_data, t) ==
    LET kfs == anim_data.keyframes
    IN Let(Bracket(kfs, TrackTime(anim_data, t), 1, kfs[1], kfs[Len(kfs)]), LAMBDA br :
         [x |-> br[1].x, y |-> br[1].y, scale |-> Get(br[1], "scale", 10),
          rotation |-> Get(br[1], "rotation", 0), alpha |-> Get(br[1], "alpha", 10)])

\* The interpolated pose of AnimationPlayer.update for one active track: x,
\* y, scale, rotation and alpha.  The ratio t of the source is part / span,
\* clamped to [0, 1], and 0 when the two keyframes have the same time; the
\* division is exact on the tracks that are evaluated (the time on the track
\* is at a keyframe or half way between two, differences are even).
TrackPose(anim_data, t) ==
    LET kfs == anim_data.keyframes
    IN Let(TrackTime(anim_data, t), LAMBDA elapsed :
       Let(Bracket(kfs, elapsed, 1, kfs[1], kfs[Len(kfs)]), LAMBDA br :
         LET prev_kf == br[1]
             next_kf == br[2]
             span == next_kf.time - prev_kf.time
             part == IF elapsed - prev_kf.time < 0 THEN 0
                     ELSE Min(elapsed - prev_kf.time, span)
             lerp(a, b) == IF prev_kf.time = next_kf.time THEN a
                           ELSE a + ((b - a) * part) \div span
             opt(f, default) ==
                 IF f \in DOMAIN next_kf
                 THEN lerp(Get(prev_kf, f, default), Get(next_kf, f, default))
                 ELSE Get(prev_kf, f, default)
         IN [x |-> lerp(prev_kf.x, next_kf.x),
             y |-> lerp(prev_kf.y, next_kf.y),
             scale |-> opt("scale", 10),
             rotation |-> opt("rotation", 0),
             alpha |-> opt("alpha", 10)]))

\* int(alpha * 255), the alpha a sprite is given, for alpha in tenths.
AlphaByte(alpha) == (alpha * 255) \div 10

\* The pose fields of sprite sp after the animation step wrote pose p to it.
Posed(sp, p) ==
    [sp EXCEPT !.x = p.x, !.y = p.y, !.scale = p.scale,
               !.rotation = p.rotation, !.alpha = AlphaByte(p.alpha)]

\* A termination test that drops the track when it reaches its last keyframe.
TrackEnded_at_last(anim_data, t) ==
    /\ Len(anim_data.keyframes) > 0
    /\ ~anim_data.loop
    /\ TrackTime(anim_data, t) >= anim_data.keyframes[Len(anim_data.keyframes)].time

\* The termination test of AnimationPlayer.update.
TrackEnded(anim_data, t) ==
    /\ Len(anim_data.keyframes) > 0
    /\ ~anim_data.loop
    /\ TrackTime(anim_data, t) > anim_data.keyframes[Len(anim_data.keyframes)].time

\* The track that drives a sprite list entry: the first sprite with the id
\* is the one that is moved (the loops break on the first match).
FirstWithId(sprites, field, id) ==
    IF \E i \in 1..Len(sprites) : sprites[i][field] = id
    THEN CHOOSE i \in 1..Len(sprites) :
            /\ sprites[i][field] = id
            /\ \A j \in 1..(i - 1) : sprites[j][field] # id
    ELSE 0

\* AnimationPlayer.update(sprites, images) at clock t:
\* [ap, sprites, images] afterwards.
AnimationPlayer_update(ap, sprites, images, t) ==
    LET act == ap.active_animations
        live == {id \in DOMAIN act : Len(act[id].keyframes) > 0}
        charIds == {id \in live : ~StartsWithImg(id)}
        imgIds == {id \in live : StartsWithImg(id)}
        moveChar(i) ==
            IF \E id \in charIds : FirstWithId(sprites, "character_id", id) = i
            THEN [Posed(sprites[i], TrackPose(act[sprites[i].character_id], t))
                    EXCEPT !.use_exact_position = TRUE]
            ELSE sprites[i]
        moveImg(i) ==
            IF \E id \in imgIds : FirstWithId(images, "image_id", StripImg(id)) = i
            THEN Posed(images[i], TrackPose(act[ImgAnimId(images[i].image_id)], t))
            ELSE images[i]
    IN [ap |-> [ap EXCEPT !.active_animations =
                    [id \in {a \in DOMAIN act : ~TrackEnded(act[a], t)} |-> act[id]]],
        sprites |-> [i \in 1..Len(sprites) |-> moveChar(i)],
        images |-> [i \in 1..Len(images) |-> moveImg(i)]]

\* ---------------------------------------------------------------- SaveManager
\* Slot ids that occur as file names in the save directory: the slots of the
\* first page of the save / load grid.
SlotUniverse == {"0", "1", "2", "3"}

\* str(n) for the slot numbers PauseMenu produces.
Str(n) == CASE n = 0 -> "0" [] n = 1 -> "1" [] n = 2 -> "2" [] OTHER -> "3"

\* os.path.join(save_dir, f"save_{slot_id}.json") within the save directory.
JsonPath(slot_id) == "save_" \o slot_id \o ".json"

\* os.path.join(save_dir, f"save_{slot_id}.png") within the save directory.
PngPath(slot_id) == "save_" \o slot_id \o ".png"

\* Keys of a save record whose JSON value is a number.
NumberKeys == {"dialog_index", "play_time"}

\* The decimal digits json.dump writes for the integer n >= 0.
RECURSIVE Digits(_)
Digits(n) == IF n < 10 THEN <<n>> ELSE Append(Digits(n \div 10), n % 10)

\* The integer json.load reads from the decimal digits ds.
RECURSIVE Number(_)
Number(ds) ==
    IF Len(ds) = 0 THEN 0
    ELSE 10 * Number(SubSeq(ds, 1, Len(ds) - 1)) + ds[Len(ds)]

\* json.dump of a dict: the text of the file, one member per key, each value
\* written as a number literal (its digits), a string literal or an object.
json_dump(d) ==
    [k \in DOMAIN d |->
        IF k \in NumberKeys THEN [tag |-> "number", lit |-> Digits(d[k])]
        ELSE IF k = "game_state" THEN [tag |-> "object", lit |-> d[k]]
        ELSE [tag |-> "string", lit |-> d[k]]]

\* The text of a file that is not JSON.
Garbage == [k \in {"scene_id"} |-> [tag |-> "garbage", lit |-> ""]]

\* The text of a file that is JSON but not an object (such as [1]).
NotAnObject == [k \in {"scene_id"} |-> [tag |-> "array", lit |-> ""]]

\* What json.load returns for such a text: a value that is not None, is true
\* in a condition and has no method get.
NotADict == [not_a_dict |-> TRUE]

\* Whether json.load accepts the text and returns a dict.
json_valid(text) ==
    \A k \in DOMAIN text : text[k].tag \in {"number", "string", "object"}

\* json.load of an accepted text: the dict.
json_load(text) ==
    [k \in DOMAIN text |->
        IF text[k].tag = "number" THEN Number(text[k].lit) ELSE text[k].lit]

\* SaveManager.__init__ before _load_saves_info.
SaveManagerInit == [slots |-> EmptyDict, thumbnails |-> EmptyDict]

\* SaveManager._load_saves_info: rebuild the slot list and the thumbnail cache
\* from the files of the save directory fs.
load_saves_info(fs) ==
    LET readable == {sl \in SlotUniverse :
                        /\ JsonPath(sl) \in DOMAIN fs
                        /\ json_valid(fs[JsonPath(sl)])}
        data(sl) == json_load(fs[JsonPath(sl)])
    IN [slots |-> [sl \in readable |->
                     [scene_id |-> Get(data(sl), "scene_id", ""),
                      scene_name |-> Get(data(sl), "scene_name", ""),
                      dialog_index |-> Get(data(sl), "dialog_index", 0),
                      timestamp |-> Get(data(sl), "timestamp", ""),
                      play_time |-> Get(data(sl), "play_time", 0)]],
        thumbnails |-> [sl \in {x \in SlotUniverse : PngPath(x) \in DOMAIN fs} |->
                          fs[PngPath(sl)]]]

\* save_game that leaves an existing save file as it is.
save_game_keeps_old(sm, fs, slot_id, scene_id, scene_name, dialog_index, screenshot) ==
    LET save_data == [scene_id |-> scene_id, scene_name |-> scene_name,
                      dialog_index |-> dialog_index, timestamp |-> "ts",
                      play_time |-> 0, game_state |-> EmptyDict]
        thumbnail == [scaled |-> screenshot]
        fs1 == IF JsonPath(slot_id) \in DOMAIN fs THEN fs
               ELSE Put(fs, JsonPath(slot_id), json_dump(save_data))
        fs2 == Put(fs1, PngPath(slot_id), thumbnail)
    IN [sm |-> [slots |-> Put(sm.slots, slot_id,
                              [scene_id |-> scene_id, scene_name |-> scene_name,
                               dialog_index |-> dialog_index,
                               timestamp |-> save_data.timestamp,
                               play_time |-> save_data.play_time]),
                thumbnails |-> Put(sm.thumbnails, slot_id, thumbnail)],
        fs |-> fs2]

\* SaveManager.save_game(slot_id, scene_id, scene_name, dialog_index,
\* screenshot) with game_state = None: [sm, fs] afterwards.
save_game(sm, fs, slot_id, scene_id, scene_name, dialog_index, screenshot) ==
    LET save_data == [scene_id |-> scene_id, scene_name |-> scene_name,
                      dialog_index |-> dialog_index, timestamp |-> "ts",
                      play_time |-> 0, game_state |-> EmptyDict]
        thumbnail == [scaled |-> screenshot]
        fs1 == Put(fs, JsonPath(slot_id), json_dump(save_data))
        fs2 == Put(fs1, PngPath(slot_id), thumbnail)
    IN [sm |-> [slots |-> Put(sm.slots, slot_id,
                              [scene_id |-> scene_id, scene_name |-> scene_name,
                               dialog_index |-> dialog_index,
                               timestamp |-> save_data.timestamp,
                               play_time |-> save_data.play_time]),
                thumbnails |-> Put(sm.thumbnails, slot_id, thumbnail)],
        fs |-> fs2]

\* SaveManager.save_game raising at pygame.image.save (the thumbnail cannot be
\* written): the JSON file is already written and closed, the thumbnail file
\* and the caches self.slots and self.thumbnails are as before.
save_game_interrupted(sm, fs, slot_id, scene_id, scene_name, dialog_index) ==
    LET save_data == [scene_id |-> scene_id, scene_name |-> scene_name,
                      dialog_index |-> dialog_index, timestamp |-> "ts",
                      play_time |-> 0, game_state |-> EmptyDict]
    IN [sm |-> sm, fs |-> Put(fs, JsonPath(slot_id), json_dump(save_data))]

\* SaveManager.load_game(slot_id): the dict of the file, or None.
load_game(fs, slot_id) ==
    IF JsonPath(slot_id) \notin DOMAIN fs THEN NoneRec
    ELSE IF json_valid(fs[JsonPath(slot_id)])
         THEN json_load(fs[JsonPath(slot_id)])
         ELSE IF fs[JsonPath(slot_id)] = NotAnObject THEN NotADict ELSE NoneRec

\* delete_save that removes the metadata and leaves the thumbnail.
delete_save_keeps_thumbnail(sm, fs, slot_id) ==
    [sm |-> [slots |-> Del(sm.slots, slot_id), thumbnails |-> sm.thumbnails],
     fs |-> Del(fs, JsonPath(slot_id))]

\* SaveManager.delete_save(slot_id): [sm, fs] afterwards.
delete_save(sm, fs, slot_id) ==
    [sm |-> [slots |-> Del(sm.slots, slot_id),
             thumbnails |-> Del(sm.thumbnails, slot_id)],
     fs |-> Del(Del(fs, JsonPath(slot_id)), PngPath(slot_id))]

\* SaveManager.get_slot_info.
get_slot_info(sm, slot_id) == Get(sm.slots, slot_id, NoneRec)

\* SaveManager.has_any_save.
has_any_save(sm) == DOMAIN sm.slots # {}

\* ---------------------------------------------------------- VisualNovelEngine
\* PauseMenu.__init__ (the fields the event dispatch reads).
PauseMenuInit ==
    [config |-> NoneRec, active |-> FALSE, current_screen |-> "main",
     current_page |-> 0, current_screenshot |-> None]

\* MainMenu.__init__ (the fields the event dispatch reads).
MainMenuInit ==
    [config |-> NoneRec, active |-> TRUE, current_screen |-> "main",
     pressed_button |-> None, dragging_slider |-> None, music_volume |-> 8]

\* VisualNovelEngine.__init__ over the save directory fs.  current_scene is
\* held as the scene's key in story.scenes.  fx is not a field of the engine:
\* it logs the line-entry side effects (sound played, per-line animations
\* started, speaking actor shown) of the handler call in progress.
EngineInit(fs) ==
    [story |-> NoneRec, current_scene |-> None, current_dialog_index |-> 0,
     state |-> "menu", state_before_pause |-> "dialog",
     dialog_delay_start |-> NoneNum, dialog_delay_duration |-> 0,
     dialog_is_delay_only |-> FALSE,
     skip_mode |-> FALSE, last_skip_time |-> 0, skip_button_rect |-> FALSE,
     running |-> FALSE, background |-> None, music |-> None,
     dialog_sound |-> None,
     characters_on_screen |-> <<>>, images_on_screen |-> <<>>,
     texts_on_screen |-> <<>>,
     dialog_box |-> DialogBoxInit, choice_menu |-> ChoiceMenuInit,
     animation_player |-> AnimationPlayerInit,
     debug_panel |-> [visible |-> FALSE],
     main_menu |-> MainMenuInit, pause_menu |-> PauseMenuInit,
     save_manager |-> load_saves_info(fs),
     fx |-> {}]

\* The Scene object self.current_scene refers to.
Cur(E) == E.story.scenes[E.current_scene]

\* len(self.current_scene.dialogs).
NumDialogs(E) == Len(Cur(E).dialogs)

RECURSIVE InsertBy(_, _, _)
\* Insert x into the sorted sequence s after every element whose key is <=.
InsertBy(s, x, key) ==
    IF s = <<>> THEN <<x>>
    ELSE IF s[1][key] <= x[key] THEN <<s[1]>> \o InsertBy(Tail(s), x, key)
         ELSE <<x>> \o s

\* list.sort(key=...): a stable sort by the field key.
SortBy(s, key) ==
    LET ins(acc, x) == InsertBy(acc, x, key) IN SeqFold(ins, <<>>, s, 1)

\* sprite.load_image(path): the loaded image, None if the file is missing.
load_image(path, A) == IF path # "" /\ path \in A THEN path ELSE None

\* VisualNovelEngine._stop_dialog_sound.
_stop_dialog_sound(E) == [E EXCEPT !.dialog_sound = None]

\* VisualNovelEngine._play_dialog_sound.
_play_dialog_sound(E, sound_path) == [E EXCEPT !.dialog_sound = sound_path]

\* VisualNovelEngine._stop_music.
_stop_music(E) == [E EXCEPT !.music = None]

\* VisualNovelEngine._play_music.
_play_music(E, path, A) ==
    IF path # "" /\ path \in A THEN [E EXCEPT !.music = path] ELSE E

\* _load_background for which a background that does not load is fatal.
_load_background_fatal(E, path, A) ==
    IF path # "" /\ path \notin A THEN [E EXCEPT !.background = None, !.running = FALSE]
    ELSE [E EXCEPT !.background = IF path # "" THEN path ELSE None]

\* VisualNovelEngine._load_background.
_load_background(E, path, A) ==
    [E EXCEPT !.background = IF path # "" /\ path \in A THEN path ELSE None]

\* VisualNovelEngine._load_images.
_load_images(E, images_data, A) ==
    LET sprite(d) == [image_id |-> Get(d, "id", ""),
                      image |-> load_image(Get(d, "path", ""), A),
                      x |-> Get(d, "x", 5), y |-> Get(d, "y", 5),
                      rotation |-> Get(d, "rotation", 0),
                      scale |-> Get(d, "scale", 10), alpha |-> 255,
                      layer |-> Get(d, "layer", 0)]
    IN [E EXCEPT !.images_on_screen =
          SortBy([i \in 1..Len(images_data) |-> sprite(images_data[i])], "layer")]

\* _start_next_text that starts every text that is animated and not started.
_start_next_text_all(E, t) ==
    [E EXCEPT !.texts_on_screen =
        [i \in 1..Len(@) |-> TextSprite_start(@[i], t)]]

\* VisualNovelEngine._start_next_text at clock t: start the first text that is
\* animated and not started.
_start_next_text(E, t) ==
    LET ts == E.texts_on_screen
        cand == {i \in 1..Len(ts) : ~ts[i].started /\ ts[i].animation # "none"}
    IN IF cand = {} THEN E
       ELSE LET i == CHOOSE c \in cand : \A d \in cand : c <= d
            IN [E EXCEPT !.texts_on_screen[i] = TextSprite_start(ts[i], t)]

\* VisualNovelEngine._load_texts at clock t.
_load_texts(E, texts_data, t) ==
    _start_next_text(
        [E EXCEPT !.texts_on_screen =
            SortBy([i \in 1..Len(texts_data) |-> TextSprite_setup(texts_data[i])],
                   "order")], t)

\* The image path of a character for an emotion, '' if it has none.
ImagePath(character, emotion) ==
    Get(character.images, emotion, Get(character.images, "default", ""))

\* CharacterSprite.__init__ with character_id set: x and y are in tenths of
\* the screen width and height, scale in tenths, rotation in degrees.
NewSprite(char_id) ==
    [character_id |-> char_id, image |-> None, x |-> 5, y |-> 7,
     rotation |-> 0, scale |-> 10, alpha |-> 255,
     use_exact_position |-> FALSE]

\* VisualNovelEngine._load_characters.
_load_characters(E, characters_data, A) ==
    LET add(acc, d) ==
            LET character == get_character(E.story, d.id)
            IN IF character = NoneRec THEN acc
               ELSE LET base == [NewSprite(d.id) EXCEPT !.image =
                               load_image(ImagePath(character, Get(d, "emotion", "default")), A)]
                    IN Append(acc, IF "x" \in DOMAIN d /\ "y" \in DOMAIN d
                                   THEN [base EXCEPT !.x = d.x, !.y = d.y,
                                                     !.rotation = Get(d, "rotation", 0),
                                                     !.scale = Get(d, "scale", 10),
                                                     !.use_exact_position = TRUE]
                                   ELSE base)
    IN [E EXCEPT !.characters_on_screen = SeqFold(add, <<>>, characters_data, 1)]

\* The id under which an animation dict is registered, "" if it has no target.
AnimId(anim) ==
    IF anim.character_id # None THEN anim.character_id
    ELSE IF anim.image_id # None THEN ImgAnimId(anim.image_id) ELSE ""

\* kf_dict of the registration loop: a declared keyframe with the defaults
\* for the fields it does not declare.
KfDict(kf) ==
    [time |-> Get(kf, "time", 0), x |-> Get(kf, "x", 5), y |-> Get(kf, "y", 7),
     scale |-> Get(kf, "scale", 10), rotation |-> Get(kf, "rotation", 0),
     alpha |-> Get(kf, "alpha", 10)]

\* kf_list of the registration loop.
KfList(keyframes) == [i \in 1..Len(keyframes) |-> KfDict(keyframes[i])]

\* The registration loop shared by _start_dialog_animations and
\* _start_background_animations.
AddAnimations(ap, animations) ==
    LET add(acc, anim) ==
            IF Len(anim.keyframes) > 0 /\ AnimId(anim) # ""
            THEN add_animation(acc, AnimId(anim), KfList(anim.keyframes), anim.loop)
            ELSE acc
    IN SeqFold(add, ap, animations, 1)

\* VisualNovelEngine._start_dialog_animations at clock t.
_start_dialog_animations(E, animations, t) ==
    [E EXCEPT !.animation_player =
        start_all(AddAnimations(E.animation_player, animations), t)]

\* _start_background_animations that keeps the tracks registered before.
_start_background_animations_no_clear(E, animations, t) ==
    [E EXCEPT !.animation_player =
        start_all(AddAnimations(E.animation_player, animations), t)]

\* VisualNovelEngine._start_background_animations at clock t.
_start_background_animations(E, animations, t) ==
    [E EXCEPT !.animation_player =
        start_all(AddAnimations(AnimationPlayer_clear(E.animation_player),
                                animations), t)]

\* VisualNovelEngine._show_speaking_character.
_show_speaking_character(E, character, emotion, position, A) ==
    LET image_path == ImagePath(character, emotion)
        sprites == E.characters_on_screen
        k == FirstWithId(sprites, "character_id", character.id)
        placed(sp) == IF position # NoneRec
                      THEN [sp EXCEPT !.x = position.x, !.y = position.y,
                                      !.rotation = Get(position, "rotation", 0),
                                      !.scale = Get(position, "scale", 10),
                                      !.use_exact_position = TRUE]
                      ELSE sp
    IN IF image_path = "" THEN E
       ELSE IF k # 0
            THEN [E EXCEPT !.characters_on_screen[k] =
                    placed([sprites[k] EXCEPT !.image = load_image(image_path, A)])]
            ELSE IF load_image(image_path, A) # None
                 THEN [E EXCEPT !.characters_on_screen =
                         Append(sprites, placed([NewSprite(character.id) EXCEPT
                                                    !.image = image_path]))]
                 ELSE E

\* Record a line-entry side effect of line index of the current scene.
Log(E, kind, index) ==
    [E EXCEPT !.fx = @ \cup {[kind |-> kind, scene |-> E.current_scene,
                              index |-> index]}]

\* VisualNovelEngine._show_dialog(index) at clock t; indices are the
\* source's, from 0.
_show_dialog(E, index, t, A) ==
    IF E.current_scene = None \/ index >= NumDialogs(E) THEN E
    ELSE LET dialog == Cur(E).dialogs[index + 1]
             duration == IF dialog.delay = NoneNum THEN 0 ELSE dialog.delay
             character == IF dialog.character_id # None
                          THEN get_character(E.story, dialog.character_id)
                          ELSE NoneRec
         IN Let([_stop_dialog_sound(E) EXCEPT
                    !.dialog_delay_duration = duration,
                    !.dialog_is_delay_only = dialog.is_delay_only,
                    !.dialog_delay_start = IF duration > 0 THEN t ELSE NoneNum],
                LAMBDA E1 :
            Let(IF dialog.sound_file # None /\ dialog.sound_file \in A
                THEN Log(_play_dialog_sound(E1, dialog.sound_file), "sound", index)
                ELSE E1,
                LAMBDA E2 :
            Let(IF Len(dialog.animations) > 0
                THEN Log(_start_dialog_animations(E2, dialog.animations, t),
                         "animations", index)
                ELSE E2,
                LAMBDA E3 :
              IF dialog.is_delay_only
              THEN [E3 EXCEPT !.dialog_box = set_dialog(@, "", <<>>, 0),
                              !.current_dialog_index = index]
              ELSE Let(IF character # NoneRec
                       THEN Log(_show_speaking_character(E3, character, dialog.emotion,
                                                         dialog.position, A),
                                "actor", index)
                       ELSE E3,
                       LAMBDA E4 :
                     [E4 EXCEPT
                        !.dialog_box = set_dialog(@, IF character # NoneRec
                                                     THEN character.name ELSE "",
                                                  dialog.text, dialog.typing_speed),
                        !.current_dialog_index = index]))))

\* VisualNovelEngine.go_to_scene(scene_id) at clock t.
go_to_scene(E, scene_id, t, A) ==
    IF E.story = NoneRec THEN E
    ELSE LET scene == get_scene(E.story, scene_id)
         IN IF scene = None THEN E
            ELSE LET sc == E.story.scenes[scene]
                     E1 == [_stop_dialog_sound(_stop_music(E)) EXCEPT
                               !.current_scene = scene,
                               !.current_dialog_index = 0,
                               !.state = "dialog",
                               !.choice_menu.is_active = FALSE]
                     E2 == _load_background(E1, sc.background, A)
                     E3 == _load_images(E2, sc.images_on_screen, A)
                     E4 == _load_texts(E3, sc.texts_on_screen, t)
                 IN Let(_load_characters(E4, sc.characters_on_screen, A), LAMBDA E5 :
                    Let(_start_background_animations(
                            IF sc.music # "" THEN _play_music(E5, sc.music, A) ELSE E5,
                            sc.background_animations, t),
                        LAMBDA E7 :
                      IF Len(sc.dialogs) > 0 THEN _show_dialog(E7, 0, t, A) ELSE E7))

\* _is_delay_active with the comparison the wrong way round.
_is_delay_active_inverted(E, t) ==
    IF E.dialog_delay_start = NoneNum \/ E.dialog_delay_duration <= 0 THEN FALSE
    ELSE t - E.dialog_delay_start >= E.dialog_delay_duration

\* VisualNovelEngine._is_delay_active at clock t.
_is_delay_active(E, t) ==
    IF E.dialog_delay_start = NoneNum \/ E.dialog_delay_duration <= 0 THEN FALSE
    ELSE t - E.dialog_delay_start < E.dialog_delay_duration

\* VisualNovelEngine._is_text_animation_blocking.
_is_text_animation_blocking(E) ==
    \E i \in 1..Len(E.texts_on_screen) : is_blocking(E.texts_on_screen[i])

\* VisualNovelEngine._show_end_screen.
_show_end_screen(E) == [E EXCEPT !.state = "end"]

\* _next_dialog with the end-of-dialog tests in the wrong order: the next
\* scene is taken before the choices are looked at.
_next_dialog_next_first(E, t, A) ==
    IF E.current_scene = None THEN E
    ELSE IF _is_text_animation_blocking(E) THEN E
    ELSE IF _is_delay_active(E, t) THEN E
    ELSE IF ~E.dialog_box.is_complete /\ ~E.dialog_is_delay_only
         THEN [E EXCEPT !.dialog_box = skip_animation(@)]
    ELSE LET next_index == E.current_dialog_index + 1
         IN IF next_index < NumDialogs(E) THEN _show_dialog(E, next_index, t, A)
            ELSE IF Cur(E).next_scene_id # None
                 THEN go_to_scene(E, Cur(E).next_scene_id, t, A)
            ELSE IF Len(Cur(E).choices) > 0
                 THEN [E EXCEPT !.state = "choice",
                                !.choice_menu = set_choices(@, Cur(E).choices)]
            ELSE _show_end_screen(E)

\* VisualNovelEngine._next_dialog at clock t.
_next_dialog(E, t, A) ==
    IF E.current_scene = None THEN E
    ELSE IF _is_text_animation_blocking(E) THEN E
    ELSE IF _is_delay_active(E, t) THEN E
    ELSE IF ~E.dialog_box.is_complete /\ ~E.dialog_is_delay_only
         THEN [E EXCEPT !.dialog_box = skip_animation(@)]
    ELSE LET next_index == E.current_dialog_index + 1
         IN IF next_index < NumDialogs(E) THEN _show_dialog(E, next_index, t, A)
            ELSE IF Len(Cur(E).choices) > 0
                 THEN [E EXCEPT !.state = "choice",
                                !.choice_menu = set_choices(@, Cur(E).choices)]
            ELSE IF Cur(E).next_scene_id # None
                 THEN go_to_scene(E, Cur(E).next_scene_id, t, A)
            ELSE _show_end_screen(E)

\* PauseMenu.load_config.
PauseMenu_load_config(pm, config) == [pm EXCEPT !.config = config]

\* PauseMenu.open(screenshot).
PauseMenu_open(pm, screenshot) ==
    [pm EXCEPT !.active = TRUE, !.current_screen = "main",
               !.current_screenshot = screenshot, !.current_page = 0]

\* PauseMenu.close.
PauseMenu_close(pm) == [pm EXCEPT !.active = FALSE]

\* PauseMenu._handle_button_action: <<menu, action>>.  The action string of
\* the pause menu is held as a tuple: <<>> for None, <<"resume">>, and
\* <<"save", slot_id>> for f"save:{slot_id}".
_handle_button_action(pm, action) ==
    CASE action = "resume" -> <<PauseMenu_close(pm), <<"resume">>>>
      [] action = "save" -> <<[pm EXCEPT !.current_screen = "save"], <<>>>>
      [] action = "load" -> <<[pm EXCEPT !.current_screen = "load"], <<>>>>
      [] action = "settings" -> <<[pm EXCEPT !.current_screen = "settings"], <<>>>>
      [] action = "main_menu" -> <<PauseMenu_close(pm), <<"main_menu">>>>
      [] action = "exit" -> <<pm, <<"exit">>>>
      [] OTHER -> <<pm, <<>>>>

\* PauseMenu._handle_mouse_up: <<menu, action>>.
PauseMenu_handle_mouse_up(pm, pos) ==
    CASE pm.current_screen = "main" /\ pos.on = "pause_button" ->
            _handle_button_action(pm, pos.a)
      [] pm.current_screen = "settings" /\ pos.on = "back_button" ->
            <<[pm EXCEPT !.current_screen = "main"], <<>>>>
      [] pm.current_screen \in {"save", "load"} /\ pos.on = "slot"
                                                /\ pos.i < SlotsPerPage ->
            <<pm, <<pm.current_screen, Str(pm.current_page * SlotsPerPage + pos.i)>>>>
      [] pm.current_screen \in {"save", "load"} /\ pos.on = "back_button" ->
            <<[pm EXCEPT !.current_screen = "main"], <<>>>>
      [] OTHER -> <<pm, <<>>>>

\* PauseMenu.handle_event: <<menu, action>>.
PauseMenu_handle_event(pm, ev) ==
    IF ~pm.active \/ pm.config = NoneRec THEN <<pm, <<>>>>
    ELSE CASE ev.type = "KEYDOWN" /\ ev.key = "ESCAPE" ->
                 IF pm.current_screen = "main"
                 THEN <<PauseMenu_close(pm), <<"resume">>>>
                 ELSE <<[pm EXCEPT !.current_screen = "main"], <<>>>>
           [] ev.type = "MOUSEBUTTONUP" -> PauseMenu_handle_mouse_up(pm, ev.pos)
           [] OTHER -> <<pm, <<>>>>

\* MainMenu.load_config: self.config is the MainMenuConfig object of the
\* story, not a copy of it.
MainMenu_load_config(mm, config) ==
    LET music == {i \in 1..Len(config.sliders) :
                     config.sliders[i].setting = "music_volume"}
    IN [mm EXCEPT !.config = config,
                  !.music_volume =
                      IF music = {} THEN @
                      ELSE config.sliders[CHOOSE i \in music :
                                             \A j \in music : j <= i].value]

\* The place of the pointer along the track of a slider, in tenths of its
\* width, clamped to 0..10: a position on a slider is at the left end of its
\* track, every other widget is centred on the screen as the tracks are.
SliderX(pos) == IF pos.on = "slider" THEN 0 ELSE 5

\* MainMenu._update_slider_drag: the value is written to the slider of the
\* configuration and to the volume it sets (min_value 0, max_value 1).
_update_slider_drag(mm, pos) ==
    LET hit == {i \in 1..Len(mm.config.sliders) :
                   mm.config.sliders[i].id = mm.dragging_slider}
    IN IF hit = {} THEN mm
       ELSE LET i == CHOOSE i \in hit : \A j \in hit : i <= j
            IN [mm EXCEPT !.config.sliders[i].value = SliderX(pos),
                          !.music_volume =
                              IF mm.config.sliders[i].setting = "music_volume"
                              THEN SliderX(pos) ELSE @]

\* MainMenu._execute_action: <<menu, action>>.
_execute_action(mm, action) ==
    CASE action = "start" -> <<[mm EXCEPT !.active = FALSE], "start">>
      [] action = "continue" -> <<mm, "continue">>
      [] action = "settings" -> <<[mm EXCEPT !.current_screen = "settings"], None>>
      [] action = "back" -> <<[mm EXCEPT !.current_screen = "main"], None>>
      [] action = "exit" -> <<mm, "exit">>
      [] OTHER -> <<mm, None>>

\* The buttons of the main menu screen that is shown, by action.
MainMenuButtons(mm) ==
    IF mm.current_screen = "main" THEN {"start", "continue", "settings", "exit"}
    ELSE {"back"}

\* MainMenu.handle_event: <<menu, action>>.  A button is named by its action.
MainMenu_handle_event(mm, ev) ==
    IF mm.config = NoneRec \/ ~mm.active THEN <<mm, None>>
    ELSE CASE ev.type = "MOUSEMOTION" ->
                 IF mm.dragging_slider # None
                 THEN <<_update_slider_drag(mm, ev.pos), None>>
                 ELSE <<mm, None>>
           [] ev.type = "MOUSEBUTTONDOWN" ->
                 IF /\ mm.current_screen = "settings"
                    /\ ev.pos.on = "slider"
                    /\ ev.pos.i < Len(mm.config.sliders)
                 THEN <<_update_slider_drag(
                            [mm EXCEPT !.dragging_slider =
                                mm.config.sliders[ev.pos.i + 1].id], ev.pos),
                        None>>
                 ELSE IF ev.pos.on = "main_button" /\ ev.pos.a \in MainMenuButtons(mm)
                 THEN <<[mm EXCEPT !.pressed_button = ev.pos.a], None>>
                 ELSE <<mm, None>>
           [] ev.type = "MOUSEBUTTONUP" ->
                 IF mm.dragging_slider # None
                 THEN <<[mm EXCEPT !.dragging_slider = None], None>>
                 ELSE IF mm.pressed_button = None THEN <<mm, None>>
                 ELSE IF /\ ev.pos.on = "main_button"
                         /\ ev.pos.a = mm.pressed_button
                         /\ ev.pos.a \in MainMenuButtons(mm)
                      THEN _execute_action([mm EXCEPT !.pressed_button = None],
                                           ev.pos.a)
                      ELSE <<[mm EXCEPT !.pressed_button = None], None>>
           [] ev.type = "KEYDOWN" /\ ev.key = "ESCAPE" ->
                 IF mm.current_screen = "settings"
                 THEN <<[mm EXCEPT !.current_screen = "main"], None>>
                 ELSE <<mm, "exit">>
           [] OTHER -> <<mm, None>>

\* DebugPanel.handle_event: the scene id of the list item that is clicked,
\* or None (the panel lists the scenes of the story).
DebugPanel_handle_event(E, ev) ==
    IF E.debug_panel.visible /\ ev.type = "MOUSEBUTTONDOWN"
       /\ ev.pos.on = "debug_item" /\ E.story # NoneRec
       /\ ev.pos.a \in DOMAIN E.story.scenes
    THEN ev.pos.a ELSE None

\* VisualNovelEngine.load_story(story) at clock t.
load_story(E, story, t, A) ==
    LET E1 == [E EXCEPT !.story = story]
    IN Let(IF story.main_menu.enabled
           THEN [E1 EXCEPT !.main_menu = MainMenu_load_config(@, story.main_menu),
                           !.state = "menu"]
           ELSE IF story.start_scene_id # ""
                THEN go_to_scene([E1 EXCEPT !.state = "dialog"],
                                 story.start_scene_id, t, A)
                ELSE [E1 EXCEPT !.state = "dialog"],
           LAMBDA E2 :
         IF story.pause_menu.enabled
         THEN [E2 EXCEPT !.pause_menu = PauseMenu_load_config(@, story.pause_menu)]
         ELSE E2)

\* VisualNovelEngine._start_game at clock t.
_start_game(E, t, A) ==
    IF E.story # NoneRec /\ E.story.start_scene_id # ""
    THEN go_to_scene([E EXCEPT !.state = "dialog"], E.story.start_scene_id, t, A)
    ELSE E

\* _open_pause_menu that does not record the mode it is opened in.
_open_pause_menu_unrecorded(E, fs) ==
    [E EXCEPT !.pause_menu = PauseMenu_open(@, "screen"),
              !.save_manager = load_saves_info(fs)]

\* VisualNovelEngine._open_pause_menu: PauseMenu.open re-reads the save
\* directory fs.
_open_pause_menu(E, fs) ==
    [E EXCEPT !.state_before_pause = E.state,
              !.pause_menu = PauseMenu_open(@, "screen"),
              !.save_manager = load_saves_info(fs)]

\* VisualNovelEngine._return_to_menu.
_return_to_menu(E) ==
    LET E1 == [_stop_dialog_sound(_stop_music(E)) EXCEPT
                  !.current_scene = None, !.characters_on_screen = <<>>,
                  !.images_on_screen = <<>>, !.texts_on_screen = <<>>,
                  !.background = None]
        E2 == IF E.story # NoneRec
              THEN [E1 EXCEPT !.main_menu =
                       [MainMenu_load_config(@, E.story.main_menu) EXCEPT
                           !.active = TRUE]]
              ELSE E1
    IN [E2 EXCEPT !.state = "menu"]

\* VisualNovelEngine._save_game(slot_id): [e, fs] afterwards.
_save_game(E, fs, slot_id) ==
    IF E.current_scene = None THEN [e |-> E, fs |-> fs]
    ELSE LET screenshot == IF E.pause_menu.current_screenshot # None
                           THEN E.pause_menu.current_screenshot ELSE "screen"
         IN Let(save_game(E.save_manager, fs, slot_id, Cur(E).id,
                          IF Cur(E).name # "" THEN Cur(E).name ELSE Cur(E).id,
                          E.current_dialog_index, screenshot),
                LAMBDA r :
              [e |-> [E EXCEPT !.save_manager = load_saves_info(r.fs)], fs |-> r.fs])

\* _load_game that takes the saved index as it is.
_load_game_no_clamp(E, fs, slot_id, t, A) ==
    LET save_data == load_game(fs, slot_id)
    IN IF save_data = NoneRec \/ DOMAIN save_data = {} THEN E
       ELSE IF save_data = NotADict THEN [E EXCEPT !.running = FALSE]
       ELSE LET scene_id == Get(save_data, "scene_id", "")
                dialog_index == Get(save_data, "dialog_index", 0)
            IN IF scene_id = "" THEN E
               ELSE Let(go_to_scene(E, scene_id, t, A), LAMBDA E1 :
                      LET has == E1.current_scene # None /\ NumDialogs(E1) > 0
                      IN Let([E1 EXCEPT !.current_dialog_index =
                                 dialog_index],
                             LAMBDA E2 :
                           [(IF has
                             THEN _show_dialog(E2, E2.current_dialog_index, t, A)
                             ELSE E2)
                              EXCEPT !.pause_menu = PauseMenu_close(@),
                                     !.state = "dialog"]))

\* _load_game that clamps the saved index to the number of lines.
_load_game_clamps_to_len(E, fs, slot_id, t, A) ==
    LET save_data == load_game(fs, slot_id)
    IN IF save_data = NoneRec \/ DOMAIN save_data = {} THEN E
       ELSE IF save_data = NotADict THEN [E EXCEPT !.running = FALSE]
       ELSE LET scene_id == Get(save_data, "scene_id", "")
                dialog_index == Get(save_data, "dialog_index", 0)
            IN IF scene_id = "" THEN E
               ELSE Let(go_to_scene(E, scene_id, t, A), LAMBDA E1 :
                      LET has == E1.current_scene # None /\ NumDialogs(E1) > 0
                      IN Let([E1 EXCEPT !.current_dialog_index =
                                 Min(dialog_index,
                                     IF has THEN NumDialogs(E1) ELSE 0)],
                             LAMBDA E2 :
                           [(IF has
                             THEN _show_dialog(E2, E2.current_dialog_index, t, A)
                             ELSE E2)
                              EXCEPT !.pause_menu = PauseMenu_close(@),
                                     !.state = "dialog"]))

\* VisualNovelEngine._load_game(slot_id) at clock t.  save_data.get on a value
\* that is not a dict raises AttributeError, which nothing catches: run()
\* ends (running = FALSE stands for the loop having stopped).
_load_game(E, fs, slot_id, t, A) ==
    LET save_data == load_game(fs, slot_id)
    IN IF save_data = NoneRec \/ DOMAIN save_data = {} THEN E
       ELSE IF save_data = NotADict THEN [E EXCEPT !.running = FALSE]
       ELSE LET scene_id == Get(save_data, "scene_id", "")
                dialog_index == Get(save_data, "dialog_index", 0)
            IN IF scene_id = "" THEN E
               ELSE Let(go_to_scene(E, scene_id, t, A), LAMBDA E1 :
                      LET has == E1.current_scene # None /\ NumDialogs(E1) > 0
                      IN Let([E1 EXCEPT !.current_dialog_index =
                                 Min(dialog_index,
                                     IF has THEN NumDialogs(E1) - 1 ELSE 0)],
                             LAMBDA E2 :
                           [(IF has
                             THEN _show_dialog(E2, E2.current_dialog_index, t, A)
                             ELSE E2)
                              EXCEPT !.pause_menu = PauseMenu_close(@),
                                     !.state = "dialog"]))

\* ------------------------------------------------------------------- inputs
\* A pygame event: type, key (for KEYDOWN) and pos (for mouse events).  "RETURN"
\* stands for K_SPACE and K_RETURN, which every handler treats alike; a
\* position is the widget it lies on (on), with the widget's index (i) or
\* name (a); mouse buttons are button 1.  The debug panel is left closed: F3
\* is not among the keys pressed.
NoPos == [on |-> "nowhere", i |-> 0, a |-> ""]
Key(k) == [type |-> "KEYDOWN", key |-> k, pos |-> NoPos]
Mouse(type, on, i, a) == [type |-> type, key |-> "", pos |-> [on |-> on, i |-> i, a |-> a]]

\* Number of choice rows a pointer event may address (one more than the
\* longest choice list of the story, so that the last one hits no choice).
ChoiceRows == 4

Events ==
    {[type |-> "QUIT", key |-> "", pos |-> NoPos]}
    \cup {Key(k) : k \in {"ESCAPE", "S", "RETURN", "UP", "DOWN"}}
    \cup {Mouse("MOUSEBUTTONDOWN", "choice", i, "") : i \in 0..(ChoiceRows - 1)}
    \cup {Mouse("MOUSEBUTTONDOWN", "skip_button", 0, ""),
          Mouse("MOUSEBUTTONDOWN", "nowhere", 0, "")}
    \cup {Mouse("MOUSEBUTTONDOWN", "main_button", 0, a) :
             a \in {"start", "continue", "settings"}}
    \cup {Mouse("MOUSEBUTTONUP", "main_button", 0, a) :
             a \in {"start", "continue", "settings"}}
    \cup {Mouse("MOUSEBUTTONDOWN", "slider", 0, "")}
    \cup {Mouse("MOUSEBUTTONUP", "pause_button", 0, a) :
             a \in {"resume", "save", "load", "main_menu"}}
    \cup {Mouse("MOUSEBUTTONUP", "slot", i, "") : i \in 0..(SlotsPerPage - 1)}
    \cup {Mouse("MOUSEBUTTONUP", "back_button", 0, "")}
    \cup {Mouse("MOUSEMOTION", "choice", 1, "")}

\* The event lists pygame.event.get() returns in one frame: the user produces
\* at most one event per frame.
EventLists == {<<>>} \cup {<<ev>> : ev \in Events}

\* ------------------------------------------------------------- handle_events
\* The Escape test of handle_events without the test of the mode.
CanOpenPauseMenu_any_mode(E) ==
    E.story # NoneRec /\ E.story.pause_menu.enabled

\* The test under which Escape opens the pause menu in handle_events.
CanOpenPauseMenu(E) ==
    /\ E.story # NoneRec
    /\ E.story.pause_menu.enabled
    /\ E.state \in {"dialog", "choice"}

\* The body of the event loop of VisualNovelEngine.handle_events for one
\* event, at clock t, on W = [e |-> engine, fs |-> save directory].
HandleEvent(W, ev, t, A) ==
    LET fs == W.fs
        E0 == IF ev.type = "QUIT" THEN [W.e EXCEPT !.running = FALSE] ELSE W.e
        only(E) == [e |-> E, fs |-> fs]
        confirm == ev.type = "KEYDOWN" /\ ev.key = "RETURN"
        choose(E) ==
            LET r == ChoiceMenu_handle_input(E.choice_menu, ev)
                E1 == [E EXCEPT !.skip_mode = FALSE, !.choice_menu = r[1]]
            IN IF r[2] # None /\ r[2] # "" THEN go_to_scene(E1, r[2], t, A) ELSE E1
    IN IF E0.pause_menu.active
       THEN LET r == PauseMenu_handle_event(E0.pause_menu, ev)
                E1 == [E0 EXCEPT !.pause_menu = r[1]]
                action == r[2]
            IN CASE action = <<"resume">> ->
                       only([E1 EXCEPT !.state = E1.state_before_pause])
                 [] action = <<"main_menu">> -> only(_return_to_menu(E1))
                 [] action = <<"exit">> -> only([E1 EXCEPT !.running = FALSE])
                 [] Len(action) = 2 /\ action[1] = "save" ->
                       _save_game(E1, fs, action[2])
                 [] Len(action) = 2 /\ action[1] = "load" ->
                       only(_load_game(E1, fs, action[2], t, A))
                 [] OTHER -> only(E1)
       ELSE IF E0.state = "menu"
       THEN LET r == MainMenu_handle_event(E0.main_menu, ev)
                E1 == IF r[1].config = NoneRec THEN [E0 EXCEPT !.main_menu = r[1]]
                      ELSE [E0 EXCEPT !.main_menu = r[1],
                                      !.story.main_menu = r[1].config]
                action == r[2]
            IN CASE action = "start" -> only(_start_game(E1, t, A))
                 [] action = "continue" ->
                       IF has_any_save(E1.save_manager)
                       THEN only([_open_pause_menu(E1, fs) EXCEPT
                                     !.pause_menu.current_screen = "load"])
                       ELSE only(_start_game(E1, t, A))
                 [] action = "exit" -> only([E1 EXCEPT !.running = FALSE])
                 [] OTHER -> only(E1)
       ELSE IF DebugPanel_handle_event(E0, ev) # None
       THEN only(go_to_scene(E0, DebugPanel_handle_event(E0, ev), t, A))
       ELSE CASE ev.type = "KEYDOWN" ->
                    (CASE ev.key = "ESCAPE" ->
                             IF CanOpenPauseMenu(E0)
                             THEN only(_open_pause_menu(E0, fs))
                             ELSE IF /\ E0.story # NoneRec
                                     /\ E0.story.main_menu.enabled
                                     /\ E0.state # "menu"
                                  THEN only(_return_to_menu(E0))
                                  ELSE only([E0 EXCEPT !.running = FALSE])
                       [] ev.key = "F3" ->
                             only([E0 EXCEPT !.debug_panel.visible = ~@])
                       [] ev.key = "S" /\ E0.state = "dialog" ->
                             only([E0 EXCEPT !.skip_mode = ~@])
                       [] E0.state = "dialog" /\ ~(ev.key = "S") /\ ev.key # "F3"
                                              /\ ev.key # "ESCAPE" ->
                             only(IF confirm THEN _next_dialog(E0, t, A) ELSE E0)
                       [] E0.state = "choice" /\ ev.key # "F3" /\ ev.key # "ESCAPE" ->
                             only(choose(E0))
                       [] E0.state = "end" /\ ev.key # "F3" /\ ev.key # "ESCAPE" ->
                             only(IF confirm
                                  THEN IF E0.story # NoneRec /\ E0.story.main_menu.enabled
                                       THEN _return_to_menu(E0)
                                       ELSE [E0 EXCEPT !.running = FALSE]
                                  ELSE E0)
                       [] OTHER -> only(E0))
              [] ev.type = "MOUSEBUTTONDOWN" ->
                    IF E0.state = "dialog"
                    THEN IF E0.skip_button_rect /\ ev.pos.on = "skip_button"
                         THEN only([E0 EXCEPT !.skip_mode = ~@])
                         ELSE only(_next_dialog(E0, t, A))
                    ELSE IF E0.state = "choice" THEN only(choose(E0))
                    ELSE only(E0)
              [] ev.type = "MOUSEMOTION" ->
                    IF E0.state = "choice"
                    THEN only([E0 EXCEPT !.choice_menu =
                                  ChoiceMenu_handle_input(@, ev)[1]])
                    ELSE only(E0)
              [] OTHER -> only(E0)

\* A skip tick that cuts the delay gate of the line short before it advances.
SkipTick_cuts_delay(E, ctrl_held, t, A) ==
    IF E.state = "dialog" /\ (ctrl_held \/ E.skip_mode)
       /\ t - E.last_skip_time >= skip_delay
    THEN LET E1 == [E EXCEPT !.last_skip_time = t, !.dialog_delay_start = NoneNum]
         IN IF E1.dialog_box.is_complete THEN _next_dialog(E1, t, A)
            ELSE [E1 EXCEPT !.dialog_box = skip_animation(@)]
    ELSE E

\* A skip tick that is not suppressed in Choice mode: there it confirms the
\* selected choice.
SkipTick_through_choice(E, ctrl_held, t, A) ==
    IF E.state \in {"dialog", "choice"} /\ (ctrl_held \/ E.skip_mode)
       /\ t - E.last_skip_time >= skip_delay
    THEN LET E1 == [E EXCEPT !.last_skip_time = t]
         IN IF E.state = "choice"
            THEN go_to_scene(E1, E1.choice_menu.choices[
                                    E1.choice_menu.selected_index + 1].next_scene_id,
                             t, A)
            ELSE IF E1.dialog_box.is_complete THEN _next_dialog(E1, t, A)
            ELSE [E1 EXCEPT !.dialog_box = skip_animation(@)]
    ELSE E

\* The skip tick that ends VisualNovelEngine.handle_events, at clock t.
SkipTick(E, ctrl_held, t, A) ==
    IF E.state = "dialog" /\ (ctrl_held \/ E.skip_mode)
       /\ t - E.last_skip_time >= skip_delay
    THEN LET E1 == [E EXCEPT !.last_skip_time = t]
         IN IF E1.dialog_box.is_complete THEN _next_dialog(E1, t, A)
            ELSE [E1 EXCEPT !.dialog_box = skip_animation(@)]
    ELSE E

\* VisualNovelEngine.handle_events at clock t, for the event list events and
\* the sampled modifier state ctrl_held: [e, fs] afterwards.
handle_events(E, fs, events, ctrl_held, t, A) ==
    LET step(W, ev) == HandleEvent(W, ev, t, A)
    IN Let(SeqFold(step, [e |-> E, fs |-> fs], events, 1), LAMBDA W1 :
         [e |-> SkipTick(W1.e, ctrl_held, t, A), fs |-> W1.fs])

\* ------------------------------------------------------------ update and draw
\* update without the automatic advance of delay-only lines.
update_no_auto_advance(E, t, A) ==
    IF E.pause_menu.active THEN E
    ELSE Let(IF E.state = "dialog"
             THEN Let([E EXCEPT !.dialog_box = DialogBox_update(@)], LAMBDA Ed :
                    Ed)
             ELSE E,
             LAMBDA E1 :
           IF E1.state = "menu" THEN E1
           ELSE Let(AnimationPlayer_update(E1.animation_player,
                                           E1.characters_on_screen,
                                           E1.images_on_screen, t),
                    LAMBDA r :
                  LET old == E1.texts_on_screen
                      new == [i \in 1..Len(old) |-> TextSprite_update(old[i], t)]
                      any_just_completed ==
                          \E i \in 1..Len(old) : ~old[i].animation_complete
                                                 /\ new[i].animation_complete
                  IN Let([E1 EXCEPT !.animation_player = r.ap,
                                    !.characters_on_screen = r.sprites,
                                    !.images_on_screen = r.images,
                                    !.texts_on_screen = new],
                         LAMBDA E2 :
                       IF any_just_completed THEN _start_next_text(E2, t) ELSE E2)))

\* VisualNovelEngine.update at clock t.
update(E, t, A) ==
    IF E.pause_menu.active THEN E
    ELSE Let(IF E.state = "dialog"
             THEN Let([E EXCEPT !.dialog_box = DialogBox_update(@)], LAMBDA Ed :
                    IF Ed.dialog_is_delay_only /\ ~_is_delay_active(Ed, t)
                    THEN _next_dialog(Ed, t, A) ELSE Ed)
             ELSE E,
             LAMBDA E1 :
           IF E1.state = "menu" THEN E1
           ELSE Let(AnimationPlayer_update(E1.animation_player,
                                           E1.characters_on_screen,
                                           E1.images_on_screen, t),
                    LAMBDA r :
                  LET old == E1.texts_on_screen
                      new == [i \in 1..Len(old) |-> TextSprite_update(old[i], t)]
                      any_just_completed ==
                          \E i \in 1..Len(old) : ~old[i].animation_complete
                                                 /\ new[i].animation_complete
                  IN Let([E1 EXCEPT !.animation_player = r.ap,
                                    !.characters_on_screen = r.sprites,
                                    !.images_on_screen = r.images,
                                    !.texts_on_screen = new],
                         LAMBDA E2 :
                       IF any_just_completed THEN _start_next_text(E2, t) ELSE E2)))

\* VisualNovelEngine.draw: the one engine field it writes is skip_button_rect.
draw(E) ==
    IF E.state = "dialog" /\ E.current_scene # None /\ NumDialogs(E) > 0
    THEN [E EXCEPT !.skip_button_rect = TRUE]
    ELSE E

\* ------------------------------------------------------------ specification
NoInput == [events |-> <<>>, ctrl_held |-> FALSE]

\* The text of a save file left by an earlier session.
OldSave(scene_id, dialog_index) ==
    json_dump([scene_id |-> scene_id, scene_name |-> scene_id,
               dialog_index |-> dialog_index, timestamp |-> "ts",
               play_time |-> 0, game_state |-> EmptyDict])

\* A save directory left by earlier sessions: slot 0 saved on the last line
\* of scene A, slot 1 saved when A had more lines, slot 2 saved in a scene
\* the story no longer has, slot 3 unreadable.
OldDisk ==
    [f \in {JsonPath(sl) : sl \in SlotUniverse} \cup {PngPath(sl) : sl \in SlotUniverse} |->
        CASE f = JsonPath("0") -> OldSave("A", 2)
          [] f = JsonPath("1") -> OldSave("A", 7)
          [] f = JsonPath("2") -> OldSave(Missing, 1)
          [] f = JsonPath("3") -> Garbage
          [] OTHER -> [scaled |-> "screen"]]

\* A save directory whose slot 0 was overwritten with JSON that is not an
\* object.
EditedDisk ==
    [f \in {JsonPath("0"), PngPath("0")} |->
        IF f = JsonPath("0") THEN NotAnObject ELSE [scaled |-> "screen"]]

\* The save directories the engine is started on.
InitialDisks == {EmptyDict, OldDisk, EditedDisk}

\* The save directory and the asset files the engine is started on: any save
\* directory with every asset present, or no file at all.
Init ==
    /\ \/ files \in InitialDisks /\ assets = AllAssets
       \/ files = EmptyDict /\ assets = {}
    /\ eng = EngineInit(files)
    /\ now = 0
    /\ pc = "load"
    /\ inp = NoInput

\* run_demo: load_story on the constructed engine, then run() sets running.
LoadStory ==
    /\ pc = "load"
    /\ \E story \in Stories :
          eng' = [load_story(eng, story, now, assets) EXCEPT !.running = TRUE]
    /\ pc' = "events"
    /\ UNCHANGED <<files, assets, now, inp>>

\* One call of handle_events in the loop of run().
HandleEvents ==
    /\ pc = "events"
    /\ eng.running
    /\ now < MaxFrames * FrameMs
    /\ \E events \in EventLists, ctrl_held \in BOOLEAN :
          \E r \in {handle_events([eng EXCEPT !.fx = {}], files, events,
                                  ctrl_held, now, assets)} :
             /\ eng' = r.e
             /\ files' = r.fs
             /\ inp' = [events |-> events, ctrl_held |-> ctrl_held]
    /\ pc' = "update"
    /\ UNCHANGED <<assets, now>>

\* The call of update that follows.
Update ==
    /\ pc = "update"
    /\ eng' = update([eng EXCEPT !.fx = {}], now, assets)
    /\ pc' = "draw"
    /\ inp' = NoInput
    /\ UNCHANGED <<files, assets, now>>

\* The call of draw that follows, and clock.tick(fps).
Draw ==
    /\ pc = "draw"
    /\ eng' = draw(eng)
    /\ now' = now + FrameMs
    /\ pc' = "events"
    /\ UNCHANGED <<files, assets, inp>>

Next == LoadStory \/ HandleEvents \/ Update \/ Draw

Spec == Init /\ [][Next]_vars

\* ------------------------------------------- specification of the SaveManager
\* The SaveManager driven directly: save_game, load_game and delete_save with
\* arguments drawn from the sets below, on the save directory files.  inp
\* holds the last call (op, slot_id), what load_game returned (result), and
\* per slot the scene id and dialog index of the last save_game since the
\* start (saved) and whether that save found a file in the slot (replaced).
SaveSlots == {"0", "3"}
SaveSceneIds == {"A", Missing}
MaxIndex == 10

NoCall ==
    [op |-> "none", slot_id |-> "", result |-> NoneRec,
     saved |-> [sl \in SaveSlots |-> NoneRec],
     replaced |-> [sl \in SaveSlots |-> FALSE]]

InitSave ==
    /\ files \in InitialDisks
    /\ assets = AllAssets
    /\ eng = EngineInit(files)
    /\ now = 0
    /\ pc = "saves"
    /\ inp = NoCall

SaveGame ==
    \E slot_id \in SaveSlots, scene_id \in SaveSceneIds, dialog_index \in 0..MaxIndex :
       \E r \in {save_game(eng.save_manager, files, slot_id, scene_id, scene_id,
                            dialog_index, "screen")} :
          /\ eng' = [eng EXCEPT !.save_manager = r.sm]
          /\ files' = r.fs
          /\ inp' = [inp EXCEPT !.op = "save", !.slot_id = slot_id,
                                !.result = NoneRec,
                                !.saved[slot_id] = [scene_id |-> scene_id,
                                                    dialog_index |-> dialog_index],
                                !.replaced[slot_id] = JsonPath(slot_id) \in DOMAIN files]
          /\ UNCHANGED <<assets, now, pc>>

LoadGame ==
    \E slot_id \in SaveSlots :
       /\ inp' = [inp EXCEPT !.op = "load", !.slot_id = slot_id,
                             !.result = load_game(files, slot_id)]
       /\ UNCHANGED <<eng, files, assets, now, pc>>

DeleteSave ==
    \E slot_id \in SaveSlots :
       LET r == delete_save(eng.save_manager, files, slot_id)
       IN /\ eng' = [eng EXCEPT !.save_manager = r.sm]
          /\ files' = r.fs
          /\ inp' = [inp EXCEPT !.op = "delete", !.slot_id = slot_id,
                                !.result = NoneRec,
                                !.saved[slot_id] = NoneRec,
                                !.replaced[slot_id] = FALSE]
          /\ UNCHANGED <<assets, now, pc>>

NextSave == SaveGame \/ LoadGame \/ DeleteSave

SpecSave == InitSave /\ [][NextSave]_vars

\* ------------------------- specification of the SaveManager with write faults
\* The SaveManager driven directly where a save_game call either returns or
\* raises between its two writes, and delete_save as above.  inp is as above:
\* op is "save" after a call that returned and "interrupted" after one that
\* raised, and inp.saved holds the arguments of the call in both cases.  The
\* saves are those of the last line the slots can name, in either scene.
SaveCompleted ==
    \E slot_id \in SaveSlots, scene_id \in SaveSceneIds :
       \E r \in {save_game(eng.save_manager, files, slot_id, scene_id, scene_id,
                            MaxIndex, "screen")} :
          /\ eng' = [eng EXCEPT !.save_manager = r.sm]
          /\ files' = r.fs
          /\ inp' = [inp EXCEPT !.op = "save", !.slot_id = slot_id,
                                !.result = NoneRec,
                                !.saved[slot_id] = [scene_id |-> scene_id,
                                                    dialog_index |-> MaxIndex],
                                !.replaced[slot_id] = JsonPath(slot_id) \in DOMAIN files]
          /\ UNCHANGED <<assets, now, pc>>

SaveInterrupted ==
    \E slot_id \in SaveSlots, scene_id \in SaveSceneIds :
       \E r \in {save_game_interrupted(eng.save_manager, files, slot_id, scene_id,
                                        scene_id, MaxIndex)} :
          /\ eng' = [eng EXCEPT !.save_manager = r.sm]
          /\ files' = r.fs
          /\ inp' = [inp EXCEPT !.op = "interrupted", !.slot_id = slot_id,
                                !.result = NoneRec,
                                !.saved[slot_id] = [scene_id |-> scene_id,
                                                    dialog_index |-> MaxIndex],
                                !.replaced[slot_id] = JsonPath(slot_id) \in DOMAIN files]
          /\ UNCHANGED <<assets, now, pc>>

NextFault == SaveCompleted \/ SaveInterrupted \/ DeleteSave

SpecFault == InitSave /\ [][NextFault]_vars

\* ------------------------------- specification of two runs on the same input
\* The frame loop run twice on the same story, save directory and input: eng
\* is the engine with every asset loading, and inp.twin is the engine for
\* which only the paths of inp.loadable load (the others are missing or
\* unreadable); inp.twin_files is its save directory.
\* The stories are those started, with or without the main menu, on the
\* scenes whose lines and actors name assets (A, and B which leads to L).
TwinAssets == {{}, {"hero.png", "bell.wav"}}
TwinStories == {Story("A", FALSE, TRUE), Story("A", TRUE, TRUE), Story("B", FALSE, TRUE)}

TwinInit ==
    /\ files \in {EmptyDict, OldDisk}
    /\ assets = AllAssets
    /\ eng = EngineInit(files)
    /\ now = 0
    /\ pc = "load"
    /\ \E loadable \in TwinAssets :
          inp = [events |-> <<>>, ctrl_held |-> FALSE, loadable |-> loadable,
                 twin |-> EngineInit(files), twin_files |-> files]

TwinLoadStory ==
    /\ pc = "load"
    /\ \E story \in TwinStories :
          /\ eng' = [load_story(eng, story, now, assets) EXCEPT !.running = TRUE]
          /\ inp' = [inp EXCEPT !.twin =
                        [load_story(inp.twin, story, now, inp.loadable)
                            EXCEPT !.running = TRUE]]
    /\ pc' = "events"
    /\ UNCHANGED <<files, assets, now>>

TwinHandleEvents ==
    /\ pc = "events"
    /\ eng.running \/ inp.twin.running
    /\ now < MaxFrames * FrameMs
    /\ \E events \in EventLists, ctrl_held \in BOOLEAN :
          \E r \in {handle_events([eng EXCEPT !.fx = {}], files, events,
                                  ctrl_held, now, assets)},
             q \in {handle_events([inp.twin EXCEPT !.fx = {}], inp.twin_files,
                                  events, ctrl_held, now, inp.loadable)} :
             /\ eng' = IF eng.running THEN r.e ELSE eng
             /\ files' = IF eng.running THEN r.fs ELSE files
             /\ inp' = [inp EXCEPT !.events = events, !.ctrl_held = ctrl_held,
                                   !.twin = IF inp.twin.running THEN q.e ELSE @,
                                   !.twin_files =
                                       IF inp.twin.running THEN q.fs ELSE @]
    /\ pc' = "update"
    /\ UNCHANGED <<assets, now>>

TwinUpdate ==
    /\ pc = "update"
    /\ eng' = update([eng EXCEPT !.fx = {}], now, assets)
    /\ inp' = [inp EXCEPT !.events = <<>>, !.ctrl_held = FALSE,
                          !.twin = update([inp.twin EXCEPT !.fx = {}], now,
                                          inp.loadable)]
    /\ pc' = "draw"
    /\ UNCHANGED <<files, assets, now>>

TwinDraw ==
    /\ pc = "draw"
    /\ eng' = draw(eng)
    /\ inp' = [inp EXCEPT !.twin = draw(inp.twin)]
    /\ now' = now + FrameMs
    /\ pc' = "events"
    /\ UNCHANGED <<files, assets>>

TwinNext == TwinLoadStory \/ TwinHandleEvents \/ TwinUpdate \/ TwinDraw

SpecTwin == TwinInit /\ [][TwinNext]_vars

\* --------------------------------------------- specification of the DialogBox
\* The DialogBox driven directly: set_dialog with arguments drawn from the
\* sets below, then update (one call per frame) and skip_animation in any
\* order.  inp holds the last call (op), the arguments of the last set_dialog
\* (text, typing_duration), the number of update calls since it (updates),
\* the number of the update call on which is_complete became true
\* (completed_on, 0 if it has not), whether skip_animation was called since
\* it (skipped), and the dialog box before the last call (before).
MaxLen == 2
MaxUpdates == 5

\* Every text of at most MaxLen characters over a two-letter alphabet.
Texts == UNION {[1..n -> {"a", "b"}] : n \in 0..MaxLen}

\* Typing durations, in frames: None, 0 (instant) and powers of two.  With a
\* power of two as the number of frames the source's float arithmetic
\* (text_len / total_frames, repeated addition) is exact for these texts,
\* and the fractions of the model are the floats of the program.
TypingDurations == {NoneNum, 0, 1, 2, 4}

NoTyping ==
    [op |-> "none", text |-> <<>>, typing_duration |-> NoneNum, updates |-> 0,
     completed_on |-> 0, skipped |-> FALSE, before |-> DialogBoxInit]

InitType ==
    /\ files = EmptyDict
    /\ assets = AllAssets
    /\ eng = EngineInit(files)
    /\ now = 0
    /\ pc = "typing"
    /\ inp = NoTyping

SetDialog ==
    \E name \in {"Hero"}, text \in Texts, typing_duration \in TypingDurations :
       /\ eng' = [eng EXCEPT !.dialog_box = set_dialog(@, name, text, typing_duration)]
       /\ inp' = [NoTyping EXCEPT !.op = "set_dialog", !.text = text,
                                  !.typing_duration = typing_duration,
                                  !.before = eng.dialog_box]
       /\ UNCHANGED <<files, assets, now, pc>>

TypeUpdate ==
    /\ inp.op # "none"
    /\ inp.updates < MaxUpdates
    /\ eng' = [eng EXCEPT !.dialog_box = DialogBox_update(@)]
    /\ inp' = [inp EXCEPT !.op = "update", !.updates = @ + 1,
                          !.completed_on =
                              IF ~eng.dialog_box.is_complete /\ eng'.dialog_box.is_complete
                              THEN inp.updates + 1 ELSE @,
                          !.before = eng.dialog_box]
    /\ UNCHANGED <<files, assets, now, pc>>

SkipAnimation ==
    /\ inp.op # "none"
    /\ eng' = [eng EXCEPT !.dialog_box = skip_animation(@)]
    /\ inp' = [inp EXCEPT !.op = "skip", !.skipped = TRUE,
                          !.before = eng.dialog_box]
    /\ UNCHANGED <<files, assets, now, pc>>

NextType == SetDialog \/ TypeUpdate \/ SkipAnimation

SpecType == InitType /\ [][NextType]_vars

\* ---------------------------------------- specification of the AnimationPlayer
\* The AnimationPlayer driven directly, as the engine drives it: a line's
\* animations are registered and started (_start_dialog_animations), the
\* player is updated on the sprites, and the clock advances, in any order.
\* The sprites are one of each id the tracks name.  inp holds the last call
\* (op), the animation dict last registered (anim), the clock of that
\* registration (since), the player and the sprites before the last call
\* (before), per clock value at which update ran since the last registration
\* the sprites it left (seen), and per character id and per image id the
\* animation dict last registered for it (declared).
\* The clock advances by TickMs; keyframe times are whole seconds, on which
\* the float arithmetic of the source (ms / 1000.0, %, the ratio) is exact.
TickMs == 1000
MaxTicks == 6

\* A keyframe that declares every field.
FullKeyframe(time, x, y, scale, rotation, alpha) ==
    [time |-> time, x |-> x, y |-> y, scale |-> scale, rotation |-> rotation,
     alpha |-> alpha]

\* [{time: 0, x: 0.2}, {time: 2, x: 0.8}].
KfsTwo == <<Keyframe(0, 2), Keyframe(2 * TickMs, 8)>>

\* Three keyframes, 2 s apart, on which every field changes.
KfsThree ==
    <<FullKeyframe(0, 0, 7, 10, 0, 10),
      FullKeyframe(2 * TickMs, 4, 5, 20, 90, 0),
      FullKeyframe(4 * TickMs, 8, 7, 10, 0, 10)>>

\* The animation dicts a line may declare: for the characters "hero" and
\* "img_logo" and for the image "logo", looping or not.
AnimDicts ==
    {AnimDict("hero", None, KfsTwo, FALSE),
     AnimDict("hero", None, KfsThree, TRUE),
     AnimDict(None, "logo", KfsThree, FALSE),
     AnimDict(None, "logo", KfsTwo, TRUE),
     AnimDict("img_logo", None, KfsTwo, FALSE)}

\* The character sprites and the image sprites on the screen.
AnimSprites == <<NewSprite("hero"), NewSprite("img_logo")>>
AnimImages ==
    <<[image_id |-> "logo", image |-> "logo.png", x |-> 5, y |-> 5,
       rotation |-> 0, scale |-> 10, alpha |-> 255, layer |-> 0]>>

\* The player and the sprites of engine E.
Stage(E) ==
    [ap |-> E.animation_player, sprites |-> E.characters_on_screen,
     images |-> E.images_on_screen]

NoAnim ==
    [op |-> "none", anim |-> NoneRec, since |-> 0,
     before |-> [ap |-> AnimationPlayerInit, sprites |-> AnimSprites,
                 images |-> AnimImages],
     seen |-> EmptyDict,
     declared |-> [character |-> EmptyDict, image |-> EmptyDict]]

InitAnim ==
    /\ files = EmptyDict
    /\ assets = AllAssets
    /\ eng = [EngineInit(files) EXCEPT !.characters_on_screen = AnimSprites,
                                       !.images_on_screen = AnimImages]
    /\ now = 0
    /\ pc = "anim"
    /\ inp = NoAnim

StartAnimations ==
    \E anim \in AnimDicts :
       /\ eng' = _start_dialog_animations(eng, <<anim>>, now)
       /\ inp' = [NoAnim EXCEPT
                     !.op = "start", !.anim = anim, !.since = now,
                     !.before = Stage(eng),
                     !.declared =
                         IF anim.character_id # None
                         THEN [inp.declared EXCEPT
                                 !.character = Put(@, anim.character_id, anim)]
                         ELSE [inp.declared EXCEPT
                                 !.image = Put(@, anim.image_id, anim)]]
       /\ UNCHANGED <<files, assets, now, pc>>

AnimUpdate ==
    /\ \E r \in {AnimationPlayer_update(eng.animation_player, eng.characters_on_screen,
                                         eng.images_on_screen, now)} :
          /\ eng' = [eng EXCEPT !.animation_player = r.ap,
                                !.characters_on_screen = r.sprites,
                                !.images_on_screen = r.images]
          /\ inp' = [inp EXCEPT !.op = "update", !.before = Stage(eng),
                                !.seen = Put(@, now, [sprites |-> r.sprites,
                                                      images |-> r.images])]
    /\ UNCHANGED <<files, assets, now, pc>>

AnimTick ==
    /\ now < MaxTicks * TickMs
    /\ now' = now + TickMs
    /\ inp' = [inp EXCEPT !.op = "tick", !.before = Stage(eng)]
    /\ UNCHANGED <<eng, files, assets, pc>>

NextAnim == StartAnimations \/ AnimUpdate \/ AnimTick

SpecAnim == InitAnim /\ [][NextAnim]_vars

\* ------------------------------------------------------- shared vocabulary
\* The events by which the user asks for an advance in Dialog mode: confirm
\* (space / return) or a click that is not on the skip button.
AdvanceEvents ==
    {Key("RETURN"), Mouse("MOUSEBUTTONDOWN", "nowhere", 0, "")}

\* The input i is one user advance and nothing else (no skip modifier).
UserAdvance(i) == i.ctrl_held = FALSE /\ \E ev \in AdvanceEvents : i.events = <<ev>>

\* The engine is in Dialog mode on a scene, with no pause menu over it and
\* skip mode off.
PlainDialog(E) ==
    /\ E.state = "dialog"
    /\ E.current_scene # None
    /\ ~E.pause_menu.active
    /\ ~E.skip_mode

\* An advance at clock t would leave the current line: nothing blocks it, no
\* delay gate is active and the line is not typing (or is delay-only).
LineCanBeLeft(E, t) ==
    /\ ~_is_text_animation_blocking(E)
    /\ ~_is_delay_active(E, t)
    /\ (E.dialog_box.is_complete \/ E.dialog_is_delay_only)

\* The current line is the last line of the scene (or the scene has none).
OnLastLine(E) == E.current_dialog_index + 1 >= NumDialogs(E)

\* This step is handle_events taking one user advance that moves past the
\* last dialog line of the current scene.
AdvancePastLastLine ==
    /\ pc = "events" /\ pc' = "update"
    /\ UserAdvance(inp')
    /\ PlainDialog(eng)
    /\ LineCanBeLeft(eng, now)
    /\ OnLastLine(eng)

\* The engine E shows line 0 of scene s in Dialog mode.
InDialogAtLine0(E, s) ==
    /\ E.state = "dialog"
    /\ E.current_scene = s
    /\ E.current_dialog_index = 0

\* The end-of-dialog outcome that takes engine E to engine F: Choice over the
\* scene's choices if it has any, else line 0 of the next scene if
\* next_scene_id names one, else no change of mode, scene and index if
\* next_scene_id names no scene, else End.
EndOfDialogOutcome(E, F) ==
    IF Len(Cur(E).choices) > 0
    THEN /\ F.state = "choice"
         /\ F.current_scene = E.current_scene
         /\ F.choice_menu.is_active
         /\ F.choice_menu.choices = Cur(E).choices
    ELSE IF Cur(E).next_scene_id # None
         THEN IF Cur(E).next_scene_id \in DOMAIN E.story.scenes
              THEN InDialogAtLine0(F, Cur(E).next_scene_id)
              ELSE /\ F.state = "dialog"
                   /\ F.current_scene = E.current_scene
                   /\ F.current_dialog_index = E.current_dialog_index
         ELSE F.state = "end"

\* Engine F is engine E moved past its current line: on the next line of the
\* same scene, or through the end-of-dialog outcome after the last line.
MovedPastLine(E, F) ==
    IF E.current_dialog_index + 1 < NumDialogs(E)
    THEN /\ F.state = "dialog"
         /\ F.current_scene = E.current_scene
         /\ F.current_dialog_index = E.current_dialog_index + 1
    ELSE EndOfDialogOutcome(E, F)

\* ------------------------------------------------------------------------ C1
\* C1 as stated: an advance past the last line gives Choice over exactly the
\* scene's choices if it has any (whether or not next_scene_id is set), else
\* Dialog at line 0 of the scene next_scene_id names if it is set, else End.
C1_AsStated ==
    [][AdvancePastLastLine =>
         IF Len(Cur(eng).choices) > 0
         THEN /\ eng'.state = "choice"
              /\ eng'.current_scene = eng.current_scene
              /\ eng'.choice_menu.is_active
              /\ eng'.choice_menu.choices = Cur(eng).choices
         ELSE IF Cur(eng).next_scene_id # None
              THEN InDialogAtLine0(eng', Cur(eng).next_scene_id)
              ELSE eng'.state = "end"]_vars

\* C1 amended: as C1, except that a next_scene_id that names no scene of the
\* story leaves the mode, the scene and the dialog index as they were.
C1_EndOfDialogOutcome ==
    [][AdvancePastLastLine => EndOfDialogOutcome(eng, eng')]_vars

\* C1 witness: a user advance has just put the engine in Choice on a scene
\* that has a next_scene_id as well.
C1_Witness ==
    /\ pc = "update"
    /\ UserAdvance(inp)
    /\ eng.state = "choice"
    /\ eng.choice_menu.choices = Cur(eng).choices
    /\ Cur(eng).next_scene_id # None

\* ------------------------------------------------------------------------ C2
\* This step has entered scene s: s is the current scene after it and was not
\* before it.
Entered(s) == eng'.current_scene = s /\ eng.current_scene # s

\* Scene s of story st has no dialog lines, no choices and no next_scene_id.
EmptyDeadEnd(st, s) ==
    /\ Len(st.scenes[s].dialogs) = 0
    /\ Len(st.scenes[s].choices) = 0
    /\ st.scenes[s].next_scene_id = None

\* C2: a step that enters a scene with no dialog lines, no choices and no
\* next_scene_id leaves the engine in mode End, with no advance or tick
\* after the entering.
C2_AsStated ==
    [][\A s \in SceneIds :
         (Entered(s) /\ EmptyDeadEnd(eng'.story, s)) => eng'.state = "end"]_vars

\* ------------------------------------------------------------------------ C3
\* Scene s of story st has no dialog lines, no choices, and a next_scene_id
\* that names a scene of the story.
EmptyWithNext(st, s) ==
    /\ Len(st.scenes[s].dialogs) = 0
    /\ Len(st.scenes[s].choices) = 0
    /\ st.scenes[s].next_scene_id \in DOMAIN st.scenes

\* C3: a scene with no dialog lines and a next_scene_id naming an existing
\* scene hands over to that scene as part of being entered, so no step ends
\* with such a scene newly current, whatever line was showing before.
C3_AsStated ==
    [][\A s \in SceneIds :
         ~(Entered(s) /\ EmptyWithNext(eng'.story, s))]_vars

\* ------------------------------------------------------------------------ C4
\* The line engine E is on (E is on a scene and its index names a line).
HasLine(E) ==
    E.current_scene # None /\ E.current_dialog_index < NumDialogs(E)

CurLine(E) == Cur(E).dialogs[E.current_dialog_index + 1]

\* E is on a line with a delay d > 0 that is not delay-only.
OnDelayedLine(E) ==
    /\ HasLine(E)
    /\ CurLine(E).delay > 0
    /\ ~CurLine(E).is_delay_only
    /\ E.dialog_delay_start # NoneNum

\* Time since the line of E was shown, at clock t.
Elapsed(E, t) == t - E.dialog_delay_start

\* This step is handle_events taking one user advance in Dialog mode.
UserAdvanceStep ==
    /\ pc = "events" /\ pc' = "update"
    /\ UserAdvance(inp')
    /\ PlainDialog(eng)

\* The typewriter reveal state is the same in E and F.
SameReveal(E, F) ==
    /\ F.dialog_box.displayed_text = E.dialog_box.displayed_text
    /\ F.dialog_box.char_index = E.dialog_box.char_index
    /\ F.dialog_box.is_complete = E.dialog_box.is_complete

\* A user advance before the delay of a delayed line has elapsed changes
\* neither dialog index, mode, scene nor reveal state.
AdvanceInDelayIsNoOp ==
    (UserAdvanceStep /\ OnDelayedLine(eng)
       /\ Elapsed(eng, now) < CurLine(eng).delay)
    => /\ eng'.current_dialog_index = eng.current_dialog_index
       /\ eng'.state = eng.state
       /\ eng'.current_scene = eng.current_scene
       /\ SameReveal(eng, eng')

\* C4 as stated: on a delayed line that is not delay-only a user advance
\* before the delay has elapsed is a no-op, and a user advance after the
\* delay has elapsed and the text is fully revealed moves past the line.
C4_AsStated ==
    [][/\ AdvanceInDelayIsNoOp
       /\ (UserAdvanceStep /\ OnDelayedLine(eng)
             /\ Elapsed(eng, now) >= CurLine(eng).delay
             /\ eng.dialog_box.is_complete)
          => MovedPastLine(eng, eng')]_vars

\* C4 amended: as C4, with the advance after the delay moving past the line
\* provided no text overlay is blocking at that moment.
C4_DelayGate ==
    [][/\ AdvanceInDelayIsNoOp
       /\ (UserAdvanceStep /\ OnDelayedLine(eng)
             /\ Elapsed(eng, now) >= CurLine(eng).delay
             /\ eng.dialog_box.is_complete
             /\ ~_is_text_animation_blocking(eng))
          => MovedPastLine(eng, eng')]_vars

\* C4 witness: a user advance has just been taken on a delayed line that is
\* still typing and whose delay has not elapsed, with no overlay blocking.
C4_Witness ==
    /\ pc = "update"
    /\ UserAdvance(inp)
    /\ PlainDialog(eng)
    /\ OnDelayedLine(eng)
    /\ Elapsed(eng, now) < CurLine(eng).delay
    /\ ~eng.dialog_box.is_complete
    /\ ~_is_text_animation_blocking(eng)

\* A user advance has just moved the engine past a delayed line.
C4_MovedPast ==
    /\ pc = "update"
    /\ UserAdvance(inp)
    /\ eng.state = "dialog" /\ HasLine(eng)
    /\ eng.current_dialog_index > 0
    /\ Cur(eng).dialogs[eng.current_dialog_index].delay > 0
    /\ ~Cur(eng).dialogs[eng.current_dialog_index].is_delay_only
    /\ eng.dialog_box.char_index.num = 0
    /\ ~eng.dialog_box.is_complete

\* ------------------------------------------------------------------------ C5
\* E is on a line with no delay gate active and no overlay blocking at clock t.
Ungated(E, t) ==
    /\ HasLine(E)
    /\ ~_is_delay_active(E, t)
    /\ ~_is_text_animation_blocking(E)

\* The whole text of the line is revealed in engine F.
Revealed(F) ==
    /\ F.dialog_box.is_complete
    /\ F.dialog_box.displayed_text = F.dialog_box.full_text

\* C5: a user advance on an ungated line that is not delay-only and is still
\* typing reveals the whole text and keeps index, scene and mode; a user
\* advance on such a line once revealed moves past it, and no tick does; a
\* user advance on an ungated delay-only line moves past it at once, with no
\* reveal step.
C5_RevealThenAdvance ==
    [][/\ (UserAdvanceStep /\ Ungated(eng, now) /\ ~CurLine(eng).is_delay_only
             /\ ~eng.dialog_box.is_complete)
          => /\ Revealed(eng')
             /\ eng'.dialog_box.full_text = eng.dialog_box.full_text
             /\ eng'.current_dialog_index = eng.current_dialog_index
             /\ eng'.current_scene = eng.current_scene
             /\ eng'.state = "dialog"
       /\ (UserAdvanceStep /\ Ungated(eng, now) /\ ~CurLine(eng).is_delay_only
             /\ eng.dialog_box.is_complete)
          => MovedPastLine(eng, eng')
       /\ (pc = "update" /\ eng.state = "dialog" /\ HasLine(eng)
             /\ ~CurLine(eng).is_delay_only)
          => /\ eng'.current_dialog_index = eng.current_dialog_index
             /\ eng'.current_scene = eng.current_scene
             /\ eng'.state = "dialog"
       /\ (UserAdvanceStep /\ Ungated(eng, now) /\ CurLine(eng).is_delay_only)
          => MovedPastLine(eng, eng')]_vars

\* C5 witness: a user advance has just revealed a line that has no delay and
\* a successor line, so that an advance on the revealed line would have
\* left it.
C5_Witness ==
    /\ pc = "update"
    /\ UserAdvance(inp)
    /\ PlainDialog(eng)
    /\ Ungated(eng, now)
    /\ ~CurLine(eng).is_delay_only
    /\ CurLine(eng).delay <= 0
    /\ eng.current_dialog_index + 1 < NumDialogs(eng)
    /\ Len(eng.dialog_box.full_text) > 0
    /\ Revealed(eng)

\* A user advance has just moved the engine past a delay-only line: the
\* line now showing has not been ticked yet.
C5_DelayOnlyLeftByUser ==
    /\ pc = "update"
    /\ UserAdvance(inp)
    /\ PlainDialog(eng) /\ HasLine(eng)
    /\ eng.current_dialog_index > 0
    /\ Cur(eng).dialogs[eng.current_dialog_index].is_delay_only
    /\ eng.dialog_box.char_index.num = 0
    /\ ~eng.dialog_box.is_complete

\* ------------------------------------------------------------------------ C6
\* This step is a tick (update) in Dialog mode on a delay-only line, with no
\* pause menu and no overlay blocking.
TickOnDelayOnlyLine ==
    /\ pc = "update"
    /\ eng.state = "dialog"
    /\ ~eng.pause_menu.active
    /\ HasLine(eng)
    /\ CurLine(eng).is_delay_only
    /\ ~_is_text_animation_blocking(eng)

\* C6: a tick on a delay-only line whose delay has elapsed moves past the
\* line (next line or end-of-dialog outcome) with no user input; a tick
\* before the delay has elapsed keeps index, scene and mode.
C6_DelayOnlyAutoAdvance ==
    [][/\ (TickOnDelayOnlyLine /\ ~_is_delay_active(eng, now))
          => MovedPastLine(eng, eng')
       /\ (pc = "update" /\ eng.state = "dialog" /\ HasLine(eng)
             /\ CurLine(eng).is_delay_only
             /\ CurLine(eng).delay > 0
             /\ eng.dialog_delay_start # NoneNum
             /\ Elapsed(eng, now) < CurLine(eng).delay)
          => /\ eng'.current_dialog_index = eng.current_dialog_index
             /\ eng'.current_scene = eng.current_scene
             /\ eng'.state = "dialog"]_vars

\* C6 witness: a tick has just left a delay-only line for the next line of
\* the scene, and the new line has not been ticked yet.
C6_Witness ==
    /\ pc = "draw"
    /\ eng.state = "dialog"
    /\ ~eng.pause_menu.active
    /\ HasLine(eng)
    /\ eng.current_dialog_index > 0
    /\ Cur(eng).dialogs[eng.current_dialog_index].is_delay_only
    /\ Len(eng.dialog_box.full_text) > 0
    /\ eng.dialog_box.char_index.num = 0
    /\ ~eng.dialog_box.is_complete

\* ------------------------------------------------------------------------ C7
\* A left click on the region of choice row i.
ClickChoice(i) == Mouse("MOUSEBUTTONDOWN", "choice", i, "")

\* This step is handle_events taking the one event ev in Choice mode, with
\* no pause menu over it and the skip modifier not held.
ChoiceStep(ev) ==
    /\ pc = "events" /\ pc' = "update"
    /\ inp' = [events |-> <<ev>>, ctrl_held |-> FALSE]
    /\ eng.state = "choice"
    /\ ~eng.pause_menu.active

\* The target of choice i (from 0) of the menu of engine E.
Target(E, i) == E.choice_menu.choices[i + 1].next_scene_id

\* The clicks that hit no choice region of the menu of engine E.
ClicksOutside(E) ==
    {ev \in Events : /\ ev.type = "MOUSEBUTTONDOWN"
                     /\ ~(ev.pos.on = "choice"
                          /\ ev.pos.i < Len(E.choice_menu.choices))}

\* Engine F is engine E with nothing selected: still in Choice on the same
\* scene with the same menu.
StillChoosing(E, F) ==
    /\ F.state = "choice"
    /\ F.current_scene = E.current_scene
    /\ F.choice_menu = E.choice_menu

\* C7 as stated: in Choice mode, confirm on the selected index and a click on
\* the region of choice i each yield that choice's target and put the engine
\* in Dialog mode at line 0 of the target scene; a click outside every
\* region selects nothing and leaves the mode Choice.
C7_AsStated ==
    [][/\ ChoiceStep(Key("RETURN"))
          => /\ ChoiceMenu_handle_input(eng.choice_menu, Key("RETURN"))[2]
                  = Target(eng, eng.choice_menu.selected_index)
             /\ InDialogAtLine0(eng', Target(eng, eng.choice_menu.selected_index))
       /\ \A i \in 0..(ChoiceRows - 1) :
            (ChoiceStep(ClickChoice(i)) /\ i < Len(eng.choice_menu.choices))
            => /\ ChoiceMenu_handle_input(eng.choice_menu, ClickChoice(i))[2]
                    = Target(eng, i)
               /\ InDialogAtLine0(eng', Target(eng, i))
       /\ \A ev \in ClicksOutside(eng) :
            ChoiceStep(ev) => StillChoosing(eng, eng')]_vars

\* Engine F is what confirming a choice with target tgt makes of engine E:
\* Dialog at line 0 of tgt if tgt names a scene of the story, else no change
\* of mode, scene and menu.
ChoiceOutcome(E, F, tgt) ==
    IF tgt \in DOMAIN E.story.scenes
    THEN InDialogAtLine0(F, tgt)
    ELSE StillChoosing(E, F)

\* C7 amended: as C7, except that a choice whose target names no scene of
\* the story leaves the engine in Choice mode on the same scene.
C7_ChoiceSelection ==
    [][/\ ChoiceStep(Key("RETURN"))
          => /\ ChoiceMenu_handle_input(eng.choice_menu, Key("RETURN"))[2]
                  = Target(eng, eng.choice_menu.selected_index)
             /\ ChoiceOutcome(eng, eng', Target(eng, eng.choice_menu.selected_index))
       /\ \A i \in 0..(ChoiceRows - 1) :
            (ChoiceStep(ClickChoice(i)) /\ i < Len(eng.choice_menu.choices))
            => /\ ChoiceMenu_handle_input(eng.choice_menu, ClickChoice(i))[2]
                    = Target(eng, i)
               /\ ChoiceOutcome(eng, eng', Target(eng, i))
       /\ \A ev \in ClicksOutside(eng) :
            ChoiceStep(ev) => StillChoosing(eng, eng')]_vars

\* The scenes no scene names as its next_scene_id: with a start scene that
\* has no lines they are entered by a choice only.
ChoiceOnlyScenes ==
    {s \in SceneIds : \A r \in SceneIds : Scenes[r].next_scene_id # s}

\* C7 witness: a click on the region of a choice other than the first has
\* just put the engine on line 0 of that choice's target, which only a
\* choice leads to; the line has not been ticked yet.
C7_Witness ==
    /\ pc = "update"
    /\ \E i \in 1..(ChoiceRows - 1) :
         /\ inp = [events |-> <<ClickChoice(i)>>, ctrl_held |-> FALSE]
         /\ \E s \in SceneIds :
              /\ i < Len(Scenes[s].choices)
              /\ Scenes[s].choices[i + 1].next_scene_id = eng.current_scene
    /\ eng.current_scene \in ChoiceOnlyScenes
    /\ eng.current_scene # eng.story.start_scene_id
    /\ InDialogAtLine0(eng, eng.current_scene)
    /\ HasLine(eng)
    /\ eng.dialog_box.char_index.num = 0
    /\ ~eng.dialog_box.is_complete

\* Keyboard confirm after moving the selection has just entered the target
\* of the second choice.
C7_KeyboardConfirm ==
    /\ pc = "update"
    /\ inp = [events |-> <<Key("RETURN")>>, ctrl_held |-> FALSE]
    /\ eng.story.start_scene_id = "Q"
    /\ eng.current_scene = "Z"
    /\ eng.state = "dialog"

\* A click outside the choice regions has just been taken in Choice mode.
C7_ClickOutside ==
    /\ pc = "update"
    /\ inp.events # <<>>
    /\ inp.events[1] \in ClicksOutside(eng)
    /\ eng.state = "choice"
    /\ ~eng.pause_menu.active

\* ------------------------------------------------------------------------ C8
\* C8: what load_game(slot) returns after a save_game to that slot is a
\* record whose scene_id and dialog_index are those of the last save_game to
\* the slot, whatever the slot held before and whatever was saved to it
\* earlier.
C8_SaveLoadRoundTrip ==
    (inp.op = "load" /\ inp.saved[inp.slot_id] # NoneRec)
    => /\ inp.result # NoneRec
       /\ inp.result # NotADict
       /\ inp.result.scene_id = inp.saved[inp.slot_id].scene_id
       /\ inp.result.dialog_index = inp.saved[inp.slot_id].dialog_index

\* C8 witness: load_game has returned the record of a save that replaced an
\* earlier save of the slot with another scene id and a dialog index of two
\* digits.
C8_Witness ==
    /\ inp.op = "load"
    /\ inp.saved[inp.slot_id] # NoneRec
    /\ inp.replaced[inp.slot_id]
    /\ inp.result # NoneRec
    /\ inp.result.scene_id = Missing
    /\ inp.result.dialog_index = MaxIndex
    /\ inp.slot_id = "0"
    /\ inp.saved["3"] # NoneRec
    /\ inp.saved["3"].scene_id = "A"

\* ------------------------------------------------------------------------ C9
\* A release of the mouse button on slot row i of the save / load grid.
ClickSlot(i) == Mouse("MOUSEBUTTONUP", "slot", i, "")

\* This step is handle_events taking one click on a slot of the load screen
\* that asks for slot sl to be loaded, with skip mode off and the skip
\* modifier not held.
LoadStep(sl) ==
    /\ pc = "events" /\ pc' = "update"
    /\ eng.pause_menu.active
    /\ eng.pause_menu.config # NoneRec
    /\ eng.pause_menu.current_screen = "load"
    /\ ~eng.skip_mode
    /\ \E i \in 0..(SlotsPerPage - 1) :
         /\ inp' = [events |-> <<ClickSlot(i)>>, ctrl_held |-> FALSE]
         /\ sl = Str(eng.pause_menu.current_page * SlotsPerPage + i)

\* Slot sl of the save directory fs holds a readable save whose scene is a
\* scene of story st.
SavedInStory(fs, sl, st) ==
    /\ JsonPath(sl) \in DOMAIN fs
    /\ json_valid(fs[JsonPath(sl)])
    /\ json_load(fs[JsonPath(sl)]).scene_id \in DOMAIN st.scenes

\* The index of the last line of scene s of story st (0 if it has no line).
LastLine(st, s) ==
    IF Len(st.scenes[s].dialogs) > 0 THEN Len(st.scenes[s].dialogs) - 1 ELSE 0

\* C9: loading a slot saved at scene s and index i, s a scene of the story,
\* leaves the engine on scene s at index i clamped to the last line of s, in
\* Dialog mode with the pause menu closed, from whatever mode and scene.
C9_LoadRestores ==
    [][\A sl \in SlotUniverse :
         (LoadStep(sl) /\ SavedInStory(files, sl, eng.story))
         => LET rec == json_load(files[JsonPath(sl)])
            IN /\ eng'.current_scene = rec.scene_id
               /\ eng'.current_dialog_index
                    = Min(rec.dialog_index, LastLine(eng.story, rec.scene_id))
               /\ eng'.state = "dialog"
               /\ ~eng'.pause_menu.active]_vars

\* C9 witness: a click on the load screen has just loaded a slot whose saved
\* index lies beyond the last line of its scene; the engine shows the last
\* line, not yet ticked, with the pause menu closed.
C9_Witness ==
    /\ pc = "update"
    /\ \E i \in 0..(SlotsPerPage - 1) :
         /\ inp = [events |-> <<ClickSlot(i)>>, ctrl_held |-> FALSE]
         /\ SavedInStory(files, Str(i), eng.story)
         /\ LET rec == json_load(files[JsonPath(Str(i))])
            IN /\ rec.dialog_index > LastLine(eng.story, rec.scene_id)
               /\ eng.current_scene = rec.scene_id
               /\ eng.current_dialog_index = LastLine(eng.story, rec.scene_id)
    /\ eng.state = "dialog"
    /\ ~eng.pause_menu.active
    /\ eng.dialog_box.char_index.num = 0
    /\ ~eng.dialog_box.is_complete

\* A click on the load screen has just loaded a save of scene Q made in
\* this run (slot 3 holds no readable save at the start).
C9_LoadedOwnSave ==
    /\ pc = "update"
    /\ inp = [events |-> <<ClickSlot(3)>>, ctrl_held |-> FALSE]
    /\ SavedInStory(files, "3", eng.story)
    /\ eng.current_scene = "Q"
    /\ eng.state = "dialog"
    /\ ~eng.pause_menu.active

\* ----------------------------------------------------------------------- C10
\* C10: when a load lands on line n > 0, the line-entry side effects of the
\* load (sound played, per-line animations started, speaking actor created
\* or refreshed) are those of line n only, none of a line before it.
C10_AsStated ==
    [][\A sl \in SlotUniverse :
         (LoadStep(sl) /\ SavedInStory(files, sl, eng.story)
            /\ json_load(files[JsonPath(sl)]).dialog_index > 0
            /\ eng'.current_dialog_index > 0)
         => \A f \in eng'.fx : f.index = eng'.current_dialog_index]_vars

\* ----------------------------------------------------------------------- C11
\* The input i asks the pause menu of engine E for a load (a click on a slot
\* of the load screen) or for the return to the main menu.
LoadOrMainMenuInput(E, i) ==
    \E k \in 1..Len(i.events) :
       \/ i.events[k] = Mouse("MOUSEBUTTONUP", "pause_button", 0, "main_menu")
       \/ /\ i.events[k].type = "MOUSEBUTTONUP"
          /\ i.events[k].pos.on = "slot"
          /\ E.pause_menu.current_screen = "load"

\* Scene, dialog index and mode are the same in E and F.
SameScenePosition(E, F) ==
    /\ F.current_scene = E.current_scene
    /\ F.current_dialog_index = E.current_dialog_index
    /\ F.state = E.state

\* This step is taken with the pause menu active before and after it, and is
\* not handle_events taking a load or a return to the main menu.
PausedStep ==
    /\ eng.pause_menu.active
    /\ eng'.pause_menu.active
    /\ ~(pc = "events" /\ LoadOrMainMenuInput(eng, inp'))

\* C11: while the pause menu is active no step (handle_events with any input
\* other than a load or a return to the main menu, update, draw) changes the
\* current scene, the dialog index or the underlying mode, whether or not
\* skip mode is on or the skip modifier is held.
C11_AsStated ==
    [][PausedStep => SameScenePosition(eng, eng')]_vars

\* ----------------------------------------------------------------------- C12
\* The revealed length of the typewriter of engine E.
RevealedLength(E) == Len(E.dialog_box.displayed_text)

\* The transforms of the actor and image sprites of engine E, sprite by
\* sprite (the model keeps the position x of a transform).
Transforms(E) ==
    [actors |-> [i \in 1..Len(E.characters_on_screen) |->
                    <<E.characters_on_screen[i].character_id,
                      E.characters_on_screen[i].x>>],
     images |-> [i \in 1..Len(E.images_on_screen) |->
                    <<E.images_on_screen[i].image_id,
                      E.images_on_screen[i].x>>]]

\* This step is part of a tick with the pause menu active and no event for
\* it: handle_events on an empty event list, update, or draw.
PausedTick ==
    /\ eng.pause_menu.active
    /\ pc \in {"events", "update", "draw"}
    /\ pc = "events" => inp'.events = <<>>

\* C12: while the pause menu is active no tick changes the revealed length
\* of the typewriter or the transform of an actor or image sprite.
C12_AsStated ==
    [][PausedTick => /\ RevealedLength(eng') = RevealedLength(eng)
                     /\ Transforms(eng') = Transforms(eng)]_vars

\* ----------------------------------------------------------------------- C13
\* The time the delay gate of engine E still has to run at clock t.
DelayRemaining(E, t) ==
    IF E.dialog_delay_start = NoneNum \/ E.dialog_delay_duration <= 0 THEN 0
    ELSE IF t - E.dialog_delay_start >= E.dialog_delay_duration THEN 0
    ELSE E.dialog_delay_duration - (t - E.dialog_delay_start)

\* The scene clock of engine E as read at clock t: the remaining time of the
\* delay gate, the elapsed time of every active animation track and the
\* elapsed time of every text overlay that is fading.
SceneClock(E, t) ==
    [delay |-> DelayRemaining(E, t),
     tracks |-> [id \in DOMAIN E.animation_player.active_animations |->
                    t - E.animation_player.active_animations[id].start_time],
     texts |-> [i \in {k \in 1..Len(E.texts_on_screen) :
                         /\ E.texts_on_screen[k].started
                         /\ ~E.texts_on_screen[k].animation_complete
                         /\ E.texts_on_screen[k].animation_start_time # NoneNum} |->
                   t - E.texts_on_screen[i].animation_start_time]]

\* This step is taken with the pause menu open, skip mode off and the skip
\* modifier not held, and is not handle_events taking a load or a return to
\* the main menu: a step between the opening of the pause menu and the
\* resume, the resume included.
PausedStepNoSkip ==
    /\ eng.pause_menu.active
    /\ ~eng.skip_mode
    /\ pc \in {"events", "update", "draw"}
    /\ pc = "events" => (~inp'.ctrl_held /\ ~LoadOrMainMenuInput(eng, inp'))

\* C13: time spent with the pause menu open does not count on the scene
\* clock.  The readings at resume equal those at the opening exactly if no
\* step in between changes them: every step taken with the pause menu open
\* leaves the remaining time of the delay gate and the elapsed time of every
\* animation track and text-overlay fade as they were.
C13_AsStated ==
    [][PausedStepNoSkip => SceneClock(eng', now') = SceneClock(eng, now)]_vars

\* ----------------------------------------------------------------------- C14
\* The inputs that resume from the main screen of the pause menu: Escape and
\* the release of the mouse button on the resume button.
ResumeEvents ==
    {Key("ESCAPE"), Mouse("MOUSEBUTTONUP", "pause_button", 0, "resume")}

\* This step is handle_events taking one resume input on the main screen of
\* the pause menu, with skip mode off and the skip modifier not held.
ResumeStep ==
    /\ pc = "events" /\ pc' = "update"
    /\ eng.pause_menu.active
    /\ eng.pause_menu.config # NoneRec
    /\ eng.pause_menu.current_screen = "main"
    /\ ~eng.skip_mode
    /\ \E ev \in ResumeEvents : inp' = [events |-> <<ev>>, ctrl_held |-> FALSE]

\* This step opens the pause menu.
OpenPauseStep == ~eng.pause_menu.active /\ eng'.pause_menu.active

\* C14: resuming puts the engine back in the mode it was in when the pause
\* menu was opened.  The step that opens the pause menu records the mode of
\* that moment as the pre-pause mode, no step taken under the pause menu
\* changes the record, and a resume (resume button or Escape on the main
\* screen) closes the pause menu with the mode equal to the record.
C14_ResumeRestoresMode ==
    [][/\ OpenPauseStep => eng'.state_before_pause = eng.state
       /\ (eng.pause_menu.active /\ eng'.pause_menu.active)
          => eng'.state_before_pause = eng.state_before_pause
       /\ ResumeStep => /\ eng'.state = eng.state_before_pause
                        /\ ~eng'.pause_menu.active]_vars

\* C14 witness: a resume input has just closed a pause menu that was opened
\* in Choice mode, and the engine is in Choice mode with its menu.
C14_Witness ==
    /\ pc = "update"
    /\ \E ev \in ResumeEvents : inp = [events |-> <<ev>>, ctrl_held |-> FALSE]
    /\ ~eng.pause_menu.active
    /\ eng.pause_menu.current_screenshot # None
    /\ eng.state_before_pause = "choice"
    /\ eng.state = "choice"
    /\ eng.choice_menu.is_active

\* ----------------------------------------------------------------------- C15
\* C15 as stated: in every state where the pause menu is active the mode
\* recorded as pre-pause is Dialog or Choice.
C15_AsStated ==
    eng.pause_menu.active => eng.state_before_pause \in {"dialog", "choice"}

\* C15 amended: in every state where the pause menu is active the mode
\* recorded as pre-pause is Dialog or Choice, or it is Menu, and then the
\* engine is still in Menu mode (the pause menu was opened over the main
\* menu by its continue action); it is never End.
C15_PrePauseMode ==
    eng.pause_menu.active
    => \/ eng.state_before_pause \in {"dialog", "choice"}
       \/ /\ eng.state_before_pause = "menu"
          /\ eng.state = "menu"

\* C15 witness: the pause menu is open on its load screen over the main
\* menu, with Menu recorded as the pre-pause mode.
C15_Witness ==
    /\ eng.pause_menu.active
    /\ eng.pause_menu.current_screen = "load"
    /\ eng.state_before_pause = "menu"
    /\ eng.state = "menu"

\* The pause menu is open over an End screen that a skip tick reached under
\* it; the pre-pause mode recorded is Dialog.
C15_EndUnderPause ==
    /\ eng.pause_menu.active
    /\ eng.state = "end"
    /\ eng.state_before_pause = "dialog"

\* ----------------------------------------------------------------------- C16
\* Slot sl of the save directory fs holds a readable save whose scene_id
\* names no scene of story st.
SavedOutsideStory(fs, sl, st) ==
    /\ JsonPath(sl) \in DOMAIN fs
    /\ json_valid(fs[JsonPath(sl)])
    /\ json_load(fs[JsonPath(sl)]).scene_id # ""
    /\ json_load(fs[JsonPath(sl)]).scene_id \notin DOMAIN st.scenes

\* An unknown scene id that comes from next_scene_id at the end of dialog or
\* from the target of a selected choice leaves mode, scene and index as
\* they were.
UnknownNextOrTargetIsNoOp ==
    /\ (AdvancePastLastLine /\ Len(Cur(eng).choices) = 0
          /\ Cur(eng).next_scene_id # None
          /\ Cur(eng).next_scene_id \notin DOMAIN eng.story.scenes)
       => SameScenePosition(eng, eng')
    /\ (ChoiceStep(Key("RETURN"))
          /\ Target(eng, eng.choice_menu.selected_index) \notin DOMAIN eng.story.scenes)
       => SameScenePosition(eng, eng')
    /\ \A i \in 0..(ChoiceRows - 1) :
         (ChoiceStep(ClickChoice(i)) /\ i < Len(eng.choice_menu.choices)
            /\ Target(eng, i) \notin DOMAIN eng.story.scenes)
         => SameScenePosition(eng, eng')

\* C16: a reference to a scene id that names no scene of the story, whether
\* it comes from next_scene_id at the end of dialog, from the target of a
\* selected choice or from the scene_id of a loaded save, leaves the mode,
\* the current scene and the dialog index unchanged.
C16_AsStated ==
    [][/\ UnknownNextOrTargetIsNoOp
       /\ \A sl \in SlotUniverse :
            (LoadStep(sl) /\ SavedOutsideStory(files, sl, eng.story))
            => SameScenePosition(eng, eng')]_vars

\* The part of C16 about next_scene_id and choice targets.
C16_NextAndTarget == [][UnknownNextOrTargetIsNoOp]_vars

\* ----------------------------------------------------------------------- C17
\* The event ev selects a choice of the menu of engine E: confirm, or a click
\* on the region of one of its choices.
SelectsChoice(E, ev) ==
    \/ ev = Key("RETURN")
    \/ \E i \in 0..(ChoiceRows - 1) :
          ev = ClickChoice(i) /\ i < Len(E.choice_menu.choices)

\* This step is part of a tick in Choice mode with no event: handle_events
\* on an empty event list (the skip modifier held or not), update, or draw.
TickInChoice ==
    /\ eng.state = "choice"
    /\ pc \in {"events", "update", "draw"}
    /\ pc = "events" => inp'.events = <<>>

\* This step leaves Choice mode.
LeavesChoice == eng.state = "choice" /\ eng'.state # "choice"

\* In Choice mode no tick changes scene, dialog index or mode, with skip mode
\* on or off and the skip modifier held or not.
NoAdvanceInChoice == TickInChoice => SameScenePosition(eng, eng')

\* C17 as stated: in Choice mode skip synthesizes no advance (no tick changes
\* scene, index or mode), and only a choice-selection input leaves Choice.
C17_AsStated ==
    [][/\ NoAdvanceInChoice
       /\ LeavesChoice
          => /\ pc = "events"
             /\ Len(inp'.events) = 1
             /\ SelectsChoice(eng, inp'.events[1])]_vars

\* C17 amended: in Choice mode skip synthesizes no advance; with the pause
\* menu closed only a choice-selection input or Escape (the return to the
\* main menu of a story with a main menu and no pause menu) leaves Choice,
\* and with the pause menu open over Choice only its load, return-to-main-
\* menu and resume actions do.
C17_SkipSuppressedInChoice ==
    [][/\ NoAdvanceInChoice
       /\ LeavesChoice
          => /\ pc = "events"
             /\ Len(inp'.events) = 1
             /\ IF eng.pause_menu.active
                THEN \/ LoadOrMainMenuInput(eng, inp')
                     \/ inp'.events[1] \in ResumeEvents
                ELSE \/ SelectsChoice(eng, inp'.events[1])
                     \/ /\ inp'.events[1] = Key("ESCAPE")
                        /\ ~eng.story.pause_menu.enabled
                        /\ eng.story.main_menu.enabled
                        /\ eng'.state = "menu"]_vars

\* C17 witness: handle_events has just run in Choice mode with no event,
\* the skip modifier held and the skip interval elapsed, and the engine is
\* in Choice mode with its menu.
C17_Witness ==
    /\ pc = "update"
    /\ inp = [events |-> <<>>, ctrl_held |-> TRUE]
    /\ now - eng.last_skip_time >= skip_delay
    /\ eng.state = "choice"
    /\ eng.choice_menu.is_active
    /\ ~eng.pause_menu.active

\* Escape has just returned the engine from Choice mode to the main menu.
C17_EscapeToMenu ==
    /\ pc = "update"
    /\ inp = [events |-> <<Key("ESCAPE")>>, ctrl_held |-> FALSE]
    /\ eng.state = "menu"
    /\ eng.story.start_scene_id = "Q"
    /\ eng.choice_menu.is_active

\* ----------------------------------------------------------------------- C18
\* The delay gate of the line engine E is on is still active at clock t: the
\* line has a delay and less than the delay has passed since it was shown.
GateActive(E, t) ==
    /\ HasLine(E)
    /\ CurLine(E).delay > 0
    /\ E.dialog_delay_start # NoneNum
    /\ Elapsed(E, t) < CurLine(E).delay

\* This step is handle_events in Dialog mode with skip mode on (before or
\* after the events of the frame) or the skip modifier held, taking any input
\* but those that leave the scene by themselves: Escape with the pause menu
\* closed, a load or a return to the main menu with the pause menu open.
SkipStep ==
    /\ pc = "events" /\ pc' = "update"
    /\ eng.state = "dialog"
    /\ inp'.ctrl_held \/ eng.skip_mode \/ eng'.skip_mode
    /\ IF eng.pause_menu.active
       THEN ~LoadOrMainMenuInput(eng, inp')
       ELSE inp'.events # <<Key("ESCAPE")>>

\* C18: skip does not shorten delay gates.  While the delay gate of the
\* current line (delay-only or ordinary) is active, handle_events with skip
\* mode on or the skip modifier held leaves scene, dialog index and mode as
\* they were, and so does update.
C18_SkipKeepsDelayGate ==
    [][/\ (SkipStep /\ GateActive(eng, now)) => SameScenePosition(eng, eng')
       /\ (pc = "update" /\ eng.state = "dialog" /\ GateActive(eng, now))
          => SameScenePosition(eng, eng')]_vars

\* C18 witness: a skip tick has just fired on a line whose delay gate is
\* still active: the text of the line is revealed and the line is still
\* showing.
C18_Witness ==
    /\ pc = "update"
    /\ inp.ctrl_held \/ eng.skip_mode
    /\ eng.state = "dialog"
    /\ now > 0
    /\ eng.last_skip_time = now
    /\ GateActive(eng, now)
    /\ eng.dialog_box.is_complete
    /\ ~eng.pause_menu.active

\* ----------------------------------------------------------------------- C19
\* A text overlay of engine E that is marked block_skip is mid-transition:
\* its animation has started and is not complete.
BlockingMidTransition(E) ==
    \E i \in 1..Len(E.texts_on_screen) :
       /\ E.texts_on_screen[i].block_skip
       /\ E.texts_on_screen[i].started
       /\ ~E.texts_on_screen[i].animation_complete

\* This step is handle_events in Dialog mode with no event and no pause
\* menu, in which skip (skip mode, or the held modifier) synthesizes an
\* advance: the skip interval has elapsed.
SkipAdvanceStep ==
    /\ pc = "events" /\ pc' = "update"
    /\ inp'.events = <<>>
    /\ inp'.ctrl_held \/ eng.skip_mode
    /\ eng.state = "dialog"
    /\ eng.current_scene # None
    /\ ~eng.pause_menu.active
    /\ now - eng.last_skip_time >= skip_delay

\* An advance leaves dialog index, mode and reveal state as they were.
AdvanceIsNoOp ==
    /\ eng'.current_dialog_index = eng.current_dialog_index
    /\ eng'.state = eng.state
    /\ SameReveal(eng, eng')

\* C19: while a block_skip text overlay of the current scene is
\* mid-transition an advance is a no-op (dialog index, mode and typewriter
\* reveal state unchanged), for a user advance and for an advance synthesized
\* by skip alike.
C19_AsStated ==
    [][/\ (UserAdvanceStep /\ BlockingMidTransition(eng)) => AdvanceIsNoOp
       /\ (SkipAdvanceStep /\ BlockingMidTransition(eng)) => AdvanceIsNoOp]_vars

\* The part of C19 about user advances.
C19_UserAdvance ==
    [][(UserAdvanceStep /\ BlockingMidTransition(eng)) => AdvanceIsNoOp]_vars

\* ----------------------------------------------------------------------- C20
\* This step ends with go_to_scene(s) for a scene s of the story, with no
\* advance after it: load_story or the start button of the main menu (no
\* slider held) on start scene s, a selected choice with target s, or a
\* user advance past the last line of a scene without choices whose
\* next_scene_id is s (skip off in each case).
EntersByGoTo(s) ==
    /\ s \in DOMAIN eng'.story.scenes
    /\ \/ /\ pc = "load"
          /\ ~eng'.story.main_menu.enabled
          /\ eng'.story.start_scene_id = s
       \/ /\ pc = "events" /\ pc' = "update"
          /\ eng.state = "menu"
          /\ ~eng.pause_menu.active
          /\ ~eng.skip_mode
          /\ eng.main_menu.pressed_button = "start"
          /\ eng.main_menu.dragging_slider = None
          /\ inp' = [events |-> <<Mouse("MOUSEBUTTONUP", "main_button", 0, "start")>>,
                     ctrl_held |-> FALSE]
          /\ eng.story.start_scene_id = s
       \/ /\ ChoiceStep(Key("RETURN"))
          /\ Target(eng, eng.choice_menu.selected_index) = s
       \/ \E i \in 0..(ChoiceRows - 1) :
             /\ ChoiceStep(ClickChoice(i))
             /\ i < Len(eng.choice_menu.choices)
             /\ Target(eng, i) = s
       \/ /\ AdvancePastLastLine
          /\ Len(Cur(eng).choices) = 0
          /\ Cur(eng).next_scene_id = s

\* The animation dicts scene sc may have registered when it is entered: its
\* background animations and the animations of its line 0.
EntryAnimations(sc) ==
    Range(sc.background_animations)
    \cup (IF Len(sc.dialogs) > 0 THEN Range(sc.dialogs[1].animations) ELSE {})

\* The actors scene sc may show when it is entered: those it places and the
\* speaker of its line 0.
EntryActors(sc) ==
    {sc.characters_on_screen[i].id : i \in 1..Len(sc.characters_on_screen)}
    \cup (IF Len(sc.dialogs) > 0 /\ sc.dialogs[1].character_id # None
          THEN {sc.dialogs[1].character_id} ELSE {})

\* Engine F, at clock t, is on scene s as go_to_scene(s) builds it.
SceneRebuilt(F, s, t) ==
    LET sc == F.story.scenes[s]
        ap == F.animation_player
    IN /\ InDialogAtLine0(F, s)
       /\ ~F.choice_menu.is_active
       /\ Len(F.images_on_screen) = Len(sc.images_on_screen)
       /\ {F.images_on_screen[i].image_id : i \in 1..Len(F.images_on_screen)}
            = {sc.images_on_screen[i].id : i \in 1..Len(sc.images_on_screen)}
       /\ Len(F.texts_on_screen) = Len(sc.texts_on_screen)
       /\ {F.texts_on_screen[i].text_id : i \in 1..Len(F.texts_on_screen)}
            = {sc.texts_on_screen[i].id : i \in 1..Len(sc.texts_on_screen)}
       /\ \A i \in 1..Len(F.texts_on_screen) :
            /\ F.texts_on_screen[i].animation_start_time \in {NoneNum, t}
            /\ ~F.texts_on_screen[i].animation_complete
       /\ \A i \in 1..Len(F.characters_on_screen) :
            F.characters_on_screen[i].character_id \in EntryActors(sc)
       /\ \A i \in 1..Len(sc.characters_on_screen) :
            sc.characters_on_screen[i].id \in DOMAIN F.story.characters
            => \E k \in 1..Len(F.characters_on_screen) :
                  F.characters_on_screen[k].character_id = sc.characters_on_screen[i].id
       /\ \A id \in DOMAIN ap.animations :
            \E anim \in EntryAnimations(sc) :
               /\ AnimId(anim) = id
               /\ ap.animations[id].keyframes = KfList(anim.keyframes)
               /\ ap.animations[id].loop = anim.loop
       /\ \A id \in DOMAIN ap.active_animations :
            /\ id \in DOMAIN ap.animations
            /\ ap.active_animations[id].start_time = t
       /\ \A anim \in Range(sc.background_animations) :
            AnimId(anim) \in DOMAIN ap.active_animations

\* C20: after go_to_scene(s) for a scene s of the story the current scene is
\* s, the dialog index 0, the mode Dialog, the choice menu inactive; the
\* image and text sprites are those of s, freshly built, the actors are
\* those s places and the speaker of line 0; and the animator holds only
\* tracks of s's background animations and of line 0, started at the entry.
C20_SceneRebuilt ==
    [][\A s \in SceneIds : EntersByGoTo(s) => SceneRebuilt(eng', s, now)]_vars

\* C20 witness: a user advance past the last line of scene A, whose
\* background and line animations were registered, has just entered scene B,
\* which has none, and the animator is empty.
C20_Witness ==
    /\ pc = "update"
    /\ UserAdvance(inp)
    /\ eng.story.start_scene_id = "A"
    /\ InDialogAtLine0(eng, "B")
    /\ eng.dialog_delay_start = now
    /\ DOMAIN eng.animation_player.animations = {}
    /\ eng.images_on_screen = <<>>

\* ----------------------------------------------------------------------- C21
\* Text overlay ts is animated.
Animated(ts) == ts.animation # "none"

\* Text overlay ts is in progress: animated, started and not complete.
InProgress(ts) == Animated(ts) /\ ts.started /\ ~ts.animation_complete

\* The overlays of engine E are kept in ascending declared order, at most one
\* animated overlay is in progress, an animated overlay is started only when
\* every animated overlay before it is complete, and the first animated
\* overlay is started.
OverlaysInSequence(E) ==
    LET ts == E.texts_on_screen
        anim == {i \in 1..Len(ts) : Animated(ts[i])}
    IN /\ \A i, j \in 1..Len(ts) : i < j => ts[i].order <= ts[j].order
       /\ Cardinality({i \in anim : InProgress(ts[i])}) <= 1
       /\ \A i, j \in anim :
             (i < j /\ ts[j].started) => ts[i].started /\ ts[i].animation_complete
       /\ \A i \in anim : (\A k \in anim : i <= k) => ts[i].started

\* This step is update on a scene whose overlays it keeps (it enters no
\* scene), and overlay i is in progress before it and complete after it.
CompletesInUpdate(i) ==
    /\ pc = "update"
    /\ Len(eng'.texts_on_screen) = Len(eng.texts_on_screen)
    /\ i \in 1..Len(eng.texts_on_screen)
    /\ eng'.texts_on_screen[i].text_id = eng.texts_on_screen[i].text_id
    /\ InProgress(eng.texts_on_screen[i])
    /\ eng'.texts_on_screen[i].animation_complete

\* Overlay j is not started before this step and started after it.
StartsInStep(j) ==
    /\ Len(eng'.texts_on_screen) = Len(eng.texts_on_screen)
    /\ j \in 1..Len(eng.texts_on_screen)
    /\ eng'.texts_on_screen[j].text_id = eng.texts_on_screen[j].text_id
    /\ ~eng.texts_on_screen[j].started
    /\ eng'.texts_on_screen[j].started

\* The animated overlay that follows overlay i in the order of engine E, 0 if
\* there is none.
NextAnimated(E, i) ==
    LET later == {j \in (i + 1)..Len(E.texts_on_screen) :
                     Animated(E.texts_on_screen[j])}
    IN IF later = {} THEN 0 ELSE CHOOSE j \in later : \A k \in later : j <= k

\* C21: animated text overlays run one at a time in ascending declared
\* order.  After every step at most one animated overlay is in progress and
\* the lowest-order animated overlay of the scene is started (so it is
\* started on scene entry); on the update on which an overlay completes the
\* animated overlay that follows it is started, at that tick; and update
\* starts an overlay only when the one before it completes on that update.
C21_OverlaysInSequence ==
    [][/\ OverlaysInSequence(eng')
       /\ \A i \in 1..Len(eng.texts_on_screen) :
             (CompletesInUpdate(i) /\ NextAnimated(eng, i) # 0)
             => /\ eng'.texts_on_screen[NextAnimated(eng, i)].started
                /\ eng'.texts_on_screen[NextAnimated(eng, i)].animation_start_time = now
       /\ \A j \in 1..Len(eng.texts_on_screen) :
             (pc = "update" /\ StartsInStep(j))
             => \E i \in 1..(j - 1) : CompletesInUpdate(i) /\ NextAnimated(eng, i) = j]_vars

\* C21 witness: on scene L the first overlay in order ("title", order 0,
\* declared second) has completed on the update of this tick and the overlay
\* that follows it ("sub") was started on it.
C21_Witness ==
    /\ pc = "draw"
    /\ eng.current_scene = "L"
    /\ Len(eng.texts_on_screen) = 2
    /\ eng.texts_on_screen[1].text_id = "title"
    /\ eng.texts_on_screen[1].animation_complete
    /\ eng.texts_on_screen[2].text_id = "sub"
    /\ InProgress(eng.texts_on_screen[2])
    /\ eng.texts_on_screen[2].animation_start_time = now

\* ----------------------------------------------------------------------- C22
\* This step advances from one line to the next line of the same scene,
\* entering no scene, and the line it enters declares animations: a user
\* advance, an advance synthesized by skip, or the automatic advance of
\* update past a delay-only line.
EntersLineWithAnimations ==
    /\ UserAdvanceStep \/ SkipAdvanceStep
       \/ (pc = "update" /\ eng.state = "dialog" /\ ~eng.pause_menu.active)
    /\ eng.current_scene # None
    /\ eng'.current_scene = eng.current_scene
    /\ eng'.state = "dialog"
    /\ eng'.current_dialog_index = eng.current_dialog_index + 1
    /\ HasLine(eng')
    /\ Len(CurLine(eng').animations) > 0

\* The ids of the scene-level background tracks of the scene of engine E.
BackgroundTargets(E) == {AnimId(a) : a \in Range(Cur(E).background_animations)}

\* The ids of the tracks the line of engine E declares.
LineTargets(E) == {AnimId(a) : a \in Range(CurLine(E).animations)}

\* The track with the given id is registered in F as it is in E, and it is
\* active in F with the start time it has in E, or active in neither.
TrackUndisturbed(E, F, id) ==
    /\ id \in DOMAIN E.animation_player.animations
       => /\ id \in DOMAIN F.animation_player.animations
          /\ F.animation_player.animations[id] = E.animation_player.animations[id]
    /\ IF id \in DOMAIN E.animation_player.active_animations
       THEN /\ id \in DOMAIN F.animation_player.active_animations
            /\ F.animation_player.active_animations[id].start_time
                 = E.animation_player.active_animations[id].start_time
       ELSE id \notin DOMAIN F.animation_player.active_animations

\* C22: entering a dialog line that declares animations leaves every
\* scene-level background track for a target the line does not animate
\* registered and running undisturbed: it stays active if it was active, is
\* not re-activated if it had terminated, and its start time (so its elapsed
\* time) is not reset.
C22_AsStated ==
    [][EntersLineWithAnimations
       => \A id \in BackgroundTargets(eng) \ LineTargets(eng') :
             TrackUndisturbed(eng, eng', id)]_vars

\* The part of C22 about registration and activity: the background tracks for
\* other targets stay registered with their keyframes, and one that is active
\* stays active.
C22_StaysRegistered ==
    [][EntersLineWithAnimations
       => \A id \in BackgroundTargets(eng) \ LineTargets(eng') :
             /\ id \in DOMAIN eng.animation_player.animations
                => /\ id \in DOMAIN eng'.animation_player.animations
                   /\ eng'.animation_player.animations[id]
                        = eng.animation_player.animations[id]
             /\ id \in DOMAIN eng.animation_player.active_animations
                => id \in DOMAIN eng'.animation_player.active_animations]_vars

\* ----------------------------------------------------------------------- C23
\* C23: for every text, a line whose typing duration is 0 shows the full
\* text and reports complete after the first update that follows set_dialog
\* (and after every later one).
C23_InstantLine ==
    (pc = "typing" /\ inp.typing_duration = 0 /\ inp.updates >= 1)
    => /\ eng.dialog_box.full_text = inp.text
       /\ eng.dialog_box.displayed_text = inp.text
       /\ eng.dialog_box.is_complete

\* C23 witness: the first update after set_dialog with duration 0 on a text
\* of the greatest length has just run, with no skip_animation, and the text
\* is shown.
C23_Witness ==
    /\ pc = "typing"
    /\ inp.op = "update"
    /\ inp.typing_duration = 0
    /\ inp.updates = 1
    /\ ~inp.skipped
    /\ Len(inp.text) = MaxLen
    /\ ~inp.before.is_complete
    /\ inp.before.displayed_text = <<>>
    /\ eng.dialog_box.displayed_text = inp.text

\* ----------------------------------------------------------------------- C24
\* set_dialog was called with a typing duration d > 0 (frames) and
\* skip_animation was not called since.
TypingTimed == pc = "typing" /\ inp.typing_duration > 0 /\ ~inp.skipped

\* C24: for every typing duration d > 0 and every text, with one update per
\* frame and no skip, is_complete is true from the update on which the
\* elapsed time reaches d (update number 60 * d) and on no earlier update.
C24_AsStated ==
    TypingTimed => (eng.dialog_box.is_complete <=> inp.updates >= inp.typing_duration)

\* The same for the texts that are not empty, over the durations of
\* TypingDurations (on which the float arithmetic of the source is exact).
C24_NonEmptyText ==
    (TypingTimed /\ Len(inp.text) > 0)
    => (eng.dialog_box.is_complete <=> inp.updates >= inp.typing_duration)

\* ----------------------------------------------------------------------- C25
\* The number of characters of the text that dialog box db shows.
Shown(db) == Len(db.displayed_text)

\* C25: skip_animation sets the revealed length to the length of the full
\* text and marks the typewriter complete at once, and it is idempotent:
\* once it was called for a line, a further skip_animation or update call
\* leaves the dialog box as it is.
C25_SkipIsIdempotent ==
    [][pc = "typing"
       => /\ inp'.op = "skip"
             => /\ eng'.dialog_box.displayed_text = eng.dialog_box.full_text
                /\ Shown(eng'.dialog_box) = Len(eng'.dialog_box.full_text)
                /\ eng'.dialog_box.char_index.num
                     = Len(eng.dialog_box.full_text) * eng'.dialog_box.char_index.den
                /\ eng'.dialog_box.is_complete
                /\ eng'.dialog_box.full_text = eng.dialog_box.full_text
          /\ (inp.skipped /\ inp'.op \in {"skip", "update"})
             => eng'.dialog_box = eng.dialog_box]_vars

\* C25 witness: skip_animation was called on a text of the greatest length
\* before any update had completed it, and the update call that followed
\* has left the dialog box complete with the full text shown.
C25_Witness ==
    /\ pc = "typing"
    /\ inp.op = "update"
    /\ inp.skipped
    /\ inp.completed_on = 0
    /\ inp.typing_duration = 4
    /\ Len(inp.text) = MaxLen
    /\ eng.dialog_box.is_complete
    /\ eng.dialog_box.displayed_text = inp.text
    /\ inp.before = eng.dialog_box

\* ----------------------------------------------------------------------- C26
\* The sprite on stage st that the active track registered under key drives.
DrivenSprite(st, key) ==
    IF StartsWithImg(key)
    THEN st.images[FirstWithId(st.images, "image_id", StripImg(key))]
    ELSE st.sprites[FirstWithId(st.sprites, "character_id", key)]

\* v is the value at time e on the straight line from a at time ta to b at
\* time tb: v = a + (b - a) * (e - ta) / (tb - ta).
OnLine(v, a, b, e, ta, tb) == (v - a) * (tb - ta) = (b - a) * (e - ta)

\* Sprite sp has the pose that lies at time e on the straight line between
\* the consecutive keyframes prev and next, in every field; the alpha of a
\* sprite is the byte int(alpha * 255).
PoseOnLine(sp, prev, next, e) ==
    /\ \A f \in {"x", "y", "scale", "rotation"} :
          OnLine(sp[f], prev[f], next[f], e, prev.time, next.time)
    /\ \E alpha \in 0..10 :
          /\ OnLine(alpha, prev.alpha, next.alpha, e, prev.time, next.time)
          /\ sp.alpha = AlphaByte(alpha)

\* C26: update has just evaluated every track that was active.  For a track
\* (its keyframes sorted by time) and its elapsed time e with
\* prev.time <= e < next.time for consecutive keyframes prev and next, every
\* animated field of the target (x, y, scale, rotation, alpha) is
\* prev + (next - prev) * (e - prev.time) / (next.time - prev.time); in
\* particular the track [{t: 0, x: 0.2}, {t: 2, x: 0.8}] at e = 1 s gives
\* x = 0.5.
C26_LinearInterpolation ==
    (pc = "anim" /\ inp.op = "update")
    => \A key \in DOMAIN inp.before.ap.active_animations :
          LET a == inp.before.ap.active_animations[key]
              e == now - a.start_time
              sp == DrivenSprite(Stage(eng), key)
          IN /\ \A i \in 1..(Len(a.keyframes) - 1) :
                   (a.keyframes[i].time <= e /\ e < a.keyframes[i + 1].time)
                   => PoseOnLine(sp, a.keyframes[i], a.keyframes[i + 1], e)
             /\ (a.keyframes = KfList(KfsTwo) /\ e = TickMs) => sp.x = 5

\* C26 witness: the track [{t: 0, x: 0.2}, {t: 2, x: 0.8}] of character
\* "hero" was evaluated 1 s after it was started and put the sprite at
\* x = 0.5; and now, 3 s after the start, the three-keyframe track of image
\* "logo" has been evaluated half way between its second and third keyframe.
C26_Witness ==
    /\ pc = "anim"
    /\ inp.op = "update"
    /\ now = inp.since + 3 * TickMs
    /\ "img_logo" \in DOMAIN inp.before.ap.active_animations
    /\ inp.before.ap.active_animations["img_logo"].keyframes = KfsThree
    /\ eng.images_on_screen[1].x = 6
    /\ eng.images_on_screen[1].rotation = 45
    /\ eng.images_on_screen[1].alpha = 127
    /\ "hero" \in DOMAIN eng.animation_player.animations
    /\ eng.animation_player.animations["hero"].keyframes = KfList(KfsTwo)
    /\ \E t \in DOMAIN inp.seen :
          /\ t = inp.since + TickMs
          /\ inp.seen[t].sprites[1].x = 5

\* ----------------------------------------------------------------------- C27
\* The pose of sprite sp.
PoseOf(sp) ==
    [x |-> sp.x, y |-> sp.y, scale |-> sp.scale, rotation |-> sp.rotation,
     alpha |-> sp.alpha]

\* The time of the last keyframe of track a.
LastTime(a) == a.keyframes[Len(a.keyframes)].time

\* The active tracks of player ap that loop over a duration D > 0.
Looping(ap) ==
    {key \in DOMAIN ap.active_animations :
        /\ Len(ap.active_animations[key].keyframes) > 0
        /\ ap.active_animations[key].loop
        /\ LastTime(ap.active_animations[key]) > 0}

\* C27: for a looping track whose last keyframe time is D > 0, the
\* evaluations at elapsed times t and t + k * D (k >= 0) leave the target in
\* the same pose, and no step removes the track from the active set.
C27_LoopIsPeriodic ==
    [][pc = "anim"
       => /\ \A key \in Looping(eng'.animation_player) :
                \A t1, t2 \in DOMAIN inp'.seen :
                   (t1 <= t2 /\ (t2 - t1) % LastTime(eng'.animation_player.active_animations[key]) = 0)
                   => PoseOf(DrivenSprite(inp'.seen[t1], key))
                        = PoseOf(DrivenSprite(inp'.seen[t2], key))
          /\ \A key \in Looping(eng.animation_player) :
                key \in DOMAIN eng'.animation_player.active_animations]_vars

\* C27 witness: the looping three-keyframe track of character "hero"
\* (D = 4 s) was evaluated 1 s after it was started, away from its first
\* pose, and has just been evaluated 5 s after it was started, with the same
\* pose.
C27_Witness ==
    /\ pc = "anim"
    /\ inp.op = "update"
    /\ "hero" \in Looping(eng.animation_player)
    /\ LastTime(eng.animation_player.active_animations["hero"]) = 4 * TickMs
    /\ now = inp.since + 5 * TickMs
    /\ (inp.since + TickMs) \in DOMAIN inp.seen
    /\ inp.seen[inp.since + TickMs].sprites[1].x = 2
    /\ eng.characters_on_screen[1].x = 2
    /\ eng.characters_on_screen[1].rotation = 45

\* ----------------------------------------------------------------------- C28
\* The pose a target is given from keyframe kf: its fields, alpha as a byte.
KeyframePose(kf) ==
    [x |-> kf.x, y |-> kf.y, scale |-> kf.scale, rotation |-> kf.rotation,
     alpha |-> AlphaByte(kf.alpha)]

\* The active tracks of player ap that do not loop.
NonLooping(ap) ==
    {key \in DOMAIN ap.active_animations :
        /\ Len(ap.active_animations[key].keyframes) > 0
        /\ ~ap.active_animations[key].loop}

\* No track is active for the sprite that key drives.
Untracked(ap, key) == key \notin DOMAIN ap.active_animations

\* C28: an update that evaluates a non-looping track at an elapsed time
\* beyond its last keyframe time leaves the target in exactly the pose of the
\* last keyframe and the track out of the active set; an update with no
\* active track for a target leaves the target as it is; and an update at an
\* elapsed time that does not exceed the last keyframe time keeps the track
\* active.
C28_EndPoseThenInactive ==
    [][(pc = "anim" /\ inp'.op = "update")
       => /\ \A key \in NonLooping(eng.animation_player) :
                LET a == eng.animation_player.active_animations[key]
                IN IF now - a.start_time > LastTime(a)
                   THEN /\ PoseOf(DrivenSprite(Stage(eng'), key))
                             = KeyframePose(a.keyframes[Len(a.keyframes)])
                        /\ Untracked(eng'.animation_player, key)
                   ELSE /\ key \in DOMAIN eng'.animation_player.active_animations
                        /\ eng'.animation_player.active_animations[key] = a
          /\ \A key \in {"hero", "img_logo"} :
                Untracked(eng.animation_player, key)
                => DrivenSprite(Stage(eng'), key) = DrivenSprite(Stage(eng), key)]_vars

\* C28 witness: the non-looping three-keyframe track of image "logo" (last
\* keyframe at 4 s) was evaluated 5 s after its start, which left the image
\* in the pose of the last keyframe and dropped the track, and an update 1 s
\* later has left the image in that pose.
C28_Witness ==
    /\ pc = "anim"
    /\ inp.op = "update"
    /\ now = inp.since + 6 * TickMs
    /\ inp.anim = AnimDict(None, "logo", KfsThree, FALSE)
    /\ (inp.since + 3 * TickMs) \in DOMAIN inp.seen
    /\ inp.seen[inp.since + 3 * TickMs].images[1].x = 6
    /\ (inp.since + 5 * TickMs) \in DOMAIN inp.seen
    /\ (inp.since + 4 * TickMs) \notin DOMAIN inp.seen
    /\ Untracked(inp.before.ap, "img_logo")
    /\ PoseOf(eng.images_on_screen[1]) = KeyframePose(KfsThree[3])

\* ----------------------------------------------------------------------- C29
\* The track the player holds under the id of animation dict d is the track
\* d declares.
HoldsTrackOf(ap, d) ==
    /\ AnimId(d) \in DOMAIN ap.animations
    /\ ap.animations[AnimId(d)].keyframes = KfList(d.keyframes)
    /\ ap.animations[AnimId(d)].loop = d.loop

\* C29: character tracks and image tracks never collide.  After every step
\* the player holds, for every character and for every image a track was
\* declared for, the track last declared for it (registering a track for one
\* never replaces the track of the other); and update moves a character
\* sprite only if a track was declared for that character, and an image
\* sprite only if a track was declared for that image.
C29_AsStated ==
    [][pc = "anim"
       => /\ \A kind \in {"character", "image"} :
                \A id \in DOMAIN inp'.declared[kind] :
                   HoldsTrackOf(eng'.animation_player, inp'.declared[kind][id])
          /\ inp'.op = "update"
             => /\ \A k \in 1..Len(eng.characters_on_screen) :
                      eng'.characters_on_screen[k] # eng.characters_on_screen[k]
                      => eng.characters_on_screen[k].character_id
                            \in DOMAIN inp.declared.character
                /\ \A k \in 1..Len(eng.images_on_screen) :
                      eng'.images_on_screen[k] # eng.images_on_screen[k]
                      => eng.images_on_screen[k].image_id
                            \in DOMAIN inp.declared.image]_vars

\* The same for character ids that do not start with "img_".
C29_UnprefixedCharacters ==
    [][(pc = "anim" /\ "img_logo" \notin DOMAIN inp'.declared.character)
       => /\ \A kind \in {"character", "image"} :
                \A id \in DOMAIN inp'.declared[kind] :
                   HoldsTrackOf(eng'.animation_player, inp'.declared[kind][id])
          /\ inp'.op = "update"
             => /\ \A k \in 1..Len(eng.characters_on_screen) :
                      eng'.characters_on_screen[k] # eng.characters_on_screen[k]
                      => eng.characters_on_screen[k].character_id
                            \in DOMAIN inp.declared.character
                /\ \A k \in 1..Len(eng.images_on_screen) :
                      eng'.images_on_screen[k] # eng.images_on_screen[k]
                      => eng.images_on_screen[k].image_id
                            \in DOMAIN inp.declared.image]_vars

\* ----------------------------------------------------------------------- C30
\* The two files of slot sl are the same in the save directories fs and gs.
SamePair(fs, gs, sl) ==
    \A p \in {JsonPath(sl), PngPath(sl)} :
       /\ p \in DOMAIN fs <=> p \in DOMAIN gs
       /\ p \in DOMAIN fs => fs[p] = gs[p]

\* The two files of slot sl in fs are the metadata and the thumbnail of a
\* save_game call with the arguments args.
NewPair(fs, sl, args) ==
    /\ JsonPath(sl) \in DOMAIN fs
    /\ PngPath(sl) \in DOMAIN fs
    /\ fs[JsonPath(sl)] = OldSave(args.scene_id, args.dialog_index)
    /\ fs[PngPath(sl)] = [scaled |-> "screen"]

\* The cached entry of slot sl is the one _load_saves_info reads from fs.
CacheAgrees(sm, fs, sl) ==
    /\ sl \in DOMAIN sm.slots <=> sl \in DOMAIN load_saves_info(fs).slots
    /\ sl \in DOMAIN sm.slots => sm.slots[sl] = load_saves_info(fs).slots[sl]
    /\ sl \in DOMAIN sm.thumbnails <=> PngPath(sl) \in DOMAIN fs
    /\ sl \in DOMAIN sm.thumbnails => sm.thumbnails[sl] = fs[PngPath(sl)]

\* A step that is a save_game call, completed or interrupted.
SaveAttempt == inp'.op \in {"save", "interrupted"}

\* C30: after every save_game call, completed or interrupted between its two
\* writes, the two files of the slot are the complete new pair or both as
\* they were before the call, and the cached slot entry agrees with the
\* files.
C30_AsStated ==
    [][SaveAttempt =>
         /\ \/ NewPair(files', inp'.slot_id, inp'.saved[inp'.slot_id])
            \/ SamePair(files', files, inp'.slot_id)
         /\ CacheAgrees(eng'.save_manager, files', inp'.slot_id)]_vars

\* What the code does keep: a save_game call that returns leaves the complete
\* new pair in the slot and a cached entry that agrees with it.
C30_CompletedSave ==
    [][inp'.op = "save" =>
         /\ NewPair(files', inp'.slot_id, inp'.saved[inp'.slot_id])
         /\ CacheAgrees(eng'.save_manager, files', inp'.slot_id)]_vars

\* ----------------------------------------------------------------------- C31
\* Slot sl has no file in fs and no entry in the caches of sm.
EmptySlot(sm, fs, sl) ==
    /\ JsonPath(sl) \notin DOMAIN fs
    /\ PngPath(sl) \notin DOMAIN fs
    /\ sl \notin DOMAIN sm.slots
    /\ sl \notin DOMAIN sm.thumbnails

\* Slot sl has the same files in fs and gs and the same cache entries in sm
\* and tm.
SlotUnchanged(sm, fs, tm, gs, sl) ==
    /\ SamePair(fs, gs, sl)
    /\ Get(sm.slots, sl, NoneRec) = Get(tm.slots, sl, NoneRec)
    /\ sl \in DOMAIN sm.slots <=> sl \in DOMAIN tm.slots
    /\ sl \in DOMAIN sm.thumbnails <=> sl \in DOMAIN tm.thumbnails
    /\ Get(sm.thumbnails, sl, NoneRec) = Get(tm.thumbnails, sl, NoneRec)

\* C31: after delete_save(slot) the slot has neither file, load_game(slot)
\* returns None, the slot is in neither cache, every other slot has the
\* files and the cache entries it had, and on an empty slot nothing changes.
C31_DeleteRemovesBoth ==
    [][inp'.op = "delete" =>
         /\ EmptySlot(eng'.save_manager, files', inp'.slot_id)
         /\ load_game(files', inp'.slot_id) = NoneRec
         /\ \A sl \in SlotUniverse \ {inp'.slot_id} :
               SlotUnchanged(eng'.save_manager, files', eng.save_manager, files, sl)
         /\ EmptySlot(eng.save_manager, files, inp'.slot_id)
               => files' = files /\ eng' = eng]_vars

\* C31 witness: on the save directory of earlier sessions, slot 0 has been
\* deleted while slot 1 still has both files and slot 3, saved in this
\* session, is still listed.
C31_Witness ==
    /\ inp.op = "delete"
    /\ inp.slot_id = "0"
    /\ EmptySlot(eng.save_manager, files, "0")
    /\ JsonPath("1") \in DOMAIN files
    /\ PngPath("1") \in DOMAIN files
    /\ inp.saved["3"] # NoneRec
    /\ "3" \in DOMAIN eng.save_manager.slots

\* ----------------------------------------------------------------------- C32
\* Slot sl of the save directory fs has a metadata file that is not the JSON
\* of an object: json.load rejects it, or returns something else than a dict.
Corrupted(fs, sl) ==
    /\ JsonPath(sl) \in DOMAIN fs
    /\ ~json_valid(fs[JsonPath(sl)])

\* A slot whose metadata file is corrupted is in neither the slot list
\* _load_saves_info builds from the directory nor the engine's slot list, and
\* load_game on it returns None.
CorruptedIsEmpty ==
    \A sl \in SlotUniverse :
       Corrupted(files, sl)
       => /\ sl \notin DOMAIN load_saves_info(files).slots
          /\ sl \notin DOMAIN eng.save_manager.slots
          /\ get_slot_info(eng.save_manager, sl) = NoneRec
          /\ load_game(files, sl) = NoneRec

\* A click on the load screen that asks for a corrupted slot changes no
\* field of the engine and no file.
CorruptedLoadIsNoOp ==
    \A sl \in SlotUniverse :
       (LoadStep(sl) /\ Corrupted(files, sl)) => (eng' = eng /\ files' = files)

\* C32: a slot whose metadata is corrupted is treated as empty: in every
\* reachable state it is absent from the slot list and load_game on it
\* returns None, and an engine load of it changes no engine state.
C32_AsStated == []CorruptedIsEmpty /\ [][CorruptedLoadIsNoOp]_vars

\* What the code does keep: the same for the slots whose metadata json.load
\* rejects.
C32_Unparseable ==
    /\ [](\A sl \in SlotUniverse :
            (Corrupted(files, sl) /\ files[JsonPath(sl)] # NotAnObject)
            => /\ sl \notin DOMAIN eng.save_manager.slots
               /\ load_game(files, sl) = NoneRec)
    /\ [][\A sl \in SlotUniverse :
            (LoadStep(sl) /\ Corrupted(files, sl) /\ files[JsonPath(sl)] # NotAnObject)
            => (eng' = eng /\ files' = files)]_vars

\* ----------------------------------------------------------------------- C33
\* The choice menu of engine E is active over the choice list of the current
\* scene, which is not empty, and the dialog list of the scene is exhausted.
ChoiceOverExhaustedScene(E) ==
    /\ E.current_scene # None
    /\ Len(Cur(E).choices) > 0
    /\ E.choice_menu.is_active
    /\ E.choice_menu.choices = Cur(E).choices
    /\ \/ NumDialogs(E) = 0
       \/ E.current_dialog_index = NumDialogs(E) - 1

\* C33: in every reachable state where the mode is Choice, the current
\* scene's choice list is non-empty, the choice menu is active over exactly
\* that list, and the dialog index is at the last line of the scene or the
\* scene has no lines.
C33_ChoiceOnlyAfterDialogs ==
    eng.state = "choice" => ChoiceOverExhaustedScene(eng)

\* C33 witness: the engine is in Choice on scene B, whose two lines were
\* advanced through, with the menu over the two choices of B.
C33_Witness ==
    /\ eng.state = "choice"
    /\ ~eng.pause_menu.active
    /\ eng.current_scene = "B"
    /\ eng.current_dialog_index = 1
    /\ Len(eng.choice_menu.choices) = 2
    /\ ChoiceOverExhaustedScene(eng)

\* ----------------------------------------------------------------------- C34
\* This step is load_story.
LoadStoryStep == pc = "load" /\ pc' = "events"

\* This step is handle_events taking the release of the mouse button on the
\* start button of the main menu, on which it was pressed, with skip mode off
\* and the skip modifier not held.
StartStep ==
    /\ pc = "events" /\ pc' = "update"
    /\ eng.state = "menu"
    /\ ~eng.pause_menu.active
    /\ eng.main_menu.active
    /\ eng.main_menu.config # NoneRec
    /\ eng.main_menu.current_screen = "main"
    /\ eng.main_menu.pressed_button = "start"
    /\ ~eng.skip_mode
    /\ inp' = [events |-> <<Mouse("MOUSEBUTTONUP", "main_button", 0, "start")>>,
               ctrl_held |-> FALSE]

\* What load_story and the start action lead to, for the stories whose
\* start_scene_id names a scene.
StartsOnStartScene ==
    /\ (LoadStoryStep /\ eng'.story.start_scene_id \in DOMAIN eng'.story.scenes)
       => IF eng'.story.main_menu.enabled
          THEN eng'.state = "menu" /\ eng'.current_scene = None
          ELSE InDialogAtLine0(eng', eng'.story.start_scene_id)
    /\ (StartStep /\ eng.story.start_scene_id \in DOMAIN eng.story.scenes)
       => InDialogAtLine0(eng', eng.story.start_scene_id)

\* C34: after load_story the mode is Menu if the main menu of the story is
\* enabled, and otherwise the engine is in Dialog on line 0 of the start
\* scene of the story; the start action of the main menu enters the start
\* scene in Dialog at line 0.
C34_AsStated ==
    [][/\ LoadStoryStep
          => IF eng'.story.main_menu.enabled THEN eng'.state = "menu"
             ELSE /\ eng'.story.start_scene_id \in DOMAIN eng'.story.scenes
                  /\ InDialogAtLine0(eng', eng'.story.start_scene_id)
       /\ StartStep
          => /\ eng.story.start_scene_id \in DOMAIN eng.story.scenes
             /\ InDialogAtLine0(eng', eng.story.start_scene_id)]_vars

\* What the code does keep: the same for the stories whose start_scene_id
\* names a scene.
C34_StartSceneExists == [][StartsOnStartScene]_vars

\* ----------------------------------------------------------------------- C35
\* This step is handle_events taking an event on the settings screen of the
\* main menu while a slider is dragged or is pressed.
SliderStep ==
    /\ pc = "events" /\ pc' = "update"
    /\ eng.state = "menu"
    /\ ~eng.pause_menu.active
    /\ eng.main_menu.active
    /\ eng.main_menu.config # NoneRec
    /\ \/ eng.main_menu.dragging_slider # None
       \/ /\ eng.main_menu.current_screen = "settings"
          /\ inp'.events = <<Mouse("MOUSEBUTTONDOWN", "slider", 0, "")>>

\* C35: once a story is loaded, no step of the engine changes any field of
\* it: its menu configurations, scenes, dialog lines and characters are
\* after every step what they were before.
C35_AsStated == [][eng.story # NoneRec => eng'.story = eng.story]_vars

\* What the code does keep: every step that is not an event taken by a slider
\* of the main menu leaves the story as it was, and a slider changes nothing
\* of it but the value of a slider of the main-menu configuration.
C35_ReadOnlyButSliders ==
    [][eng.story # NoneRec
       => /\ ~SliderStep => eng'.story = eng.story
          /\ [eng'.story EXCEPT !.main_menu.sliders = <<>>]
                = [eng.story EXCEPT !.main_menu.sliders = <<>>]
          /\ Len(eng'.story.main_menu.sliders) = Len(eng.story.main_menu.sliders)
          /\ eng'.main_menu.config # NoneRec
                => eng'.main_menu.config = eng'.story.main_menu]_vars

\* ----------------------------------------------------------------------- C36
\* The mode, the current scene and the dialog index of engine E.
Control(E) == <<E.state, E.current_scene, E.current_dialog_index>>

\* C36: on the same story, save directory and input, the engine whose asset
\* loads fail is at every step in the same mode, on the same scene and at the
\* same dialog index as the engine whose loads all succeed, and its loop
\* runs exactly as long.
C36_AssetsDoNotSteer ==
    /\ Control(inp.twin) = Control(eng)
    /\ inp.twin.running = eng.running
    /\ inp.twin_files = files

\* C36 witness: after an advance to line 1 of scene A the two engines differ
\* in what they loaded (background, music, the sound of the line) and agree
\* on where they are.
C36_Witness ==
    /\ eng.running
    /\ eng.state = "dialog"
    /\ eng.current_scene = "A"
    /\ eng.current_dialog_index = 1
    /\ eng.background = "bg.png"
    /\ inp.twin.background = None
    /\ eng.music = "theme.ogg"
    /\ inp.twin.music = None
    /\ Control(inp.twin) = Control(eng)

\* ----------------------------------------------------------------------- C37
\* C37: in every reachable state where the mode is Dialog, Choice or End, the
\* current scene is set and is a scene of the loaded story.
C37_AsStated ==
    eng.state \in {"dialog", "choice", "end"}
    => /\ eng.story # NoneRec
       /\ eng.current_scene # None
       /\ eng.current_scene \in DOMAIN eng.story.scenes

\* What the code does keep: the same for the modes Choice and End.
C37_SceneSetInChoiceAndEnd ==
    eng.state \in {"choice", "end"}
    => /\ eng.story # NoneRec
       /\ eng.current_scene # None
       /\ eng.current_scene \in DOMAIN eng.story.scenes

\* ----------------------------------------------------------------------- C38
\* C38: whenever the current scene has at least one dialog line, the dialog
\* index is the index of one of its lines.
C38_IndexInRange ==
    (eng.current_scene # None /\ NumDialogs(eng) > 0)
    => /\ 0 <= eng.current_dialog_index
       /\ eng.current_dialog_index < NumDialogs(eng)

\* C38 witness: slot 1, saved at index 7 when scene A had more lines, has
\* been loaded from the load screen, and the engine is on the last line of
\* A, index 2.
C38_Witness ==
    /\ pc = "update"
    /\ inp.events = <<ClickSlot(1)>>
    /\ ~eng.pause_menu.active
    /\ JsonPath("1") \in DOMAIN files
    /\ load_game(files, "1").dialog_index = 7
    /\ eng.state = "dialog"
    /\ eng.current_scene = "A"
    /\ NumDialogs(eng) = 3
    /\ eng.current_dialog_index = 2

\* ----------------------------------------------------------------------- C39
\* C39: the pause menu is active only when a pause-menu configuration has
\* been loaded, so that its handle_event takes the Escape that closes it.
C39_AsStated == eng.pause_menu.active => eng.pause_menu.config # NoneRec

\* What the code does keep: a pause menu opened by Escape, over Dialog or
\* Choice, has its configuration.
C39_OpenedByEscape ==
    (eng.pause_menu.active /\ eng.state_before_pause # "menu")
    => eng.pause_menu.config # NoneRec

\* ----------------------------------------------------------------------- C40
\* load_game returned a save record (a dict), not None and not another JSON
\* value.
IsRecord(r) == r # NoneRec /\ r # NotADict

\* Slot sl is listed exactly when load_game returns a record for it, and then
\* the listed entry and the record have the same scene_id and dialog_index.
Coherent(sm, fs, sl) ==
    /\ get_slot_info(sm, sl) # NoneRec <=> IsRecord(load_game(fs, sl))
    /\ get_slot_info(sm, sl) # NoneRec =>
          /\ get_slot_info(sm, sl).scene_id = Get(load_game(fs, sl), "scene_id", "")
          /\ get_slot_info(sm, sl).dialog_index
                = Get(load_game(fs, sl), "dialog_index", 0)

\* C40: after any sequence of save_game and delete_save calls, a save_game
\* call that raised included, every slot is listed exactly when load_game
\* returns a record for it, with the same scene_id and dialog_index.
C40_AsStated == \A sl \in SlotUniverse : Coherent(eng.save_manager, files, sl)

\* What the code does keep: a save_game or delete_save call that returns
\* leaves a coherent slot list coherent.
C40_CompletedCalls ==
    [][(/\ inp'.op \in {"save", "delete"}
        /\ \A sl \in SlotUniverse : Coherent(eng.save_manager, files, sl))
       => \A sl \in SlotUniverse : Coherent(eng'.save_manager, files', sl)]_vars
====
